---------------------------- MODULE Spec2Model ----------------------------
(***************************************************************************)
(* AnalyseMe housing-support assessment (streamlit_app.py): the question   *)
(* catalog, the scoring engine, the risk classifier, the payload builder,  *)
(* the Bedrock enrichment client with its fallback generator, and the      *)
(* session (welcome -> question -> additional -> results) that drives them.*)
(*                                                                         *)
(* Conventions.                                                            *)
(*  - A Python str the program inspects (startswith, in, json.loads) is a  *)
(*    sequence of its space-separated words; a str that is only passed     *)
(*    through or used as a key is a TLA+ string.  The source's en dash and *)
(*    em dash are written "-" (TLA+ strings are ASCII).                    *)
(*  - A Python dict whose order the program exposes (responses,            *)
(*    category_scores) is a sequence of [key, value] entries with distinct *)
(*    keys, in insertion order.                                            *)
(*  - A value that comes out of json.loads, and the fallback result that   *)
(*    stands in for one, is tagged with its type: [t |-> "str", s |-> its  *)
(*    words], [t |-> "dict", d |-> a function of its keys], ...  A str     *)
(*    that holds JSON text is given by its lexemes instead of its words.   *)
(*  - A clock reading (datetime.now()) is a parameter of the operator that *)
(*    takes it.                                                            *)
(***************************************************************************)
EXTENDS Integers, Sequences, FiniteSets, TLC

VARIABLES
  QUESTIONS,           \* the module global bound at lines 480-673
  BEDROCK_API_KEY,     \* whether the module global of line 68 holds a key
  phase,               \* "loading" | "ready" | "failed": the module's top-level code
  page,                \* st.session_state.page
  current_question,    \* st.session_state.current_question
  responses,           \* st.session_state.responses
  additional_context,  \* st.session_state.additional_context
  reference,           \* st.session_state.reference
  llm_payload,         \* st.session_state.llm_payload
  llm_response,        \* st.session_state.llm_response
  used_fallback,       \* st.session_state.used_fallback
  now,                 \* the last reading of the wall clock, in ticks
  exc,                 \* the exception the last script run ended with, or "none"
  last_call,           \* the last call_bedrock_claude of this assessment: who made it, where it
                       \* ended, the payload it posted, used_fallback when it was made
  written,             \* what get_fallback_response wrote, to the log and to stdout, in the last script run
  issued,              \* the references of the assessments this session has completed
  score,               \* argument of a get_risk_band call
  band                 \* the tuple that call returned

moduleVars == <<QUESTIONS, BEDROCK_API_KEY, phase>>
sessionVars == <<page, current_question, responses, additional_context, reference,
                 llm_payload, llm_response, used_fallback>>
runVars == <<now, exc, last_call, written, issued>>
bandVars == <<score, band>>

vars == <<moduleVars, sessionVars, runVars, bandVars>>

-----------------------------------------------------------------------------
(* Bounds of the model.                                                    *)

\* The user chooses freely among the options of the first MaxVaried questions
\* and takes the first option of the others.
MaxVaried == 1
\* In a scoring request drawn at random, at most this many questions depart
\* from the request's base profile.
MaxFree == 2
\* The same for the scoring requests the relational properties are tried on,
\* each of which is scored again in several orders.
MaxDepart == 1
\* The wall clock runs from tick 0 to tick MaxNow.
MaxNow == 1
\* Ticks in one clock minute (the resolution of generate_reference).
TicksPerMinute == 1
\* get_risk_band is applied to every score in -MaxBandInput .. MaxBandInput.
MaxBandInput == 120
\* A candidate catalog differs from the source's in one weight, by at most this.
MaxDelta == 1

-----------------------------------------------------------------------------
(* Python values.                                                          *)

None == [t |-> "None"]
JStr(words) == [t |-> "str", s |-> words]
JText(lexemes) == [t |-> "str", lex |-> lexemes]
JNum(n) == [t |-> "int", n |-> n]
JBool(b) == [t |-> "bool", b |-> b]
JList(items) == [t |-> "list", items |-> items]
JDict(d) == [t |-> "dict", d |-> d]

\* key in d, d[key], d[key] = value for an insertion-ordered dict.
DictHas(d, key) == \E i \in 1..Len(d) : d[i].key = key
DictGet(d, key) == d[CHOOSE i \in 1..Len(d) : d[i].key = key].value
DictSet(d, key, value) ==
  IF DictHas(d, key)
    THEN [i \in 1..Len(d) |-> IF d[i].key = key THEN [key |-> key, value |-> value] ELSE d[i]]
    ELSE Append(d, [key |-> key, value |-> value])
DictKeys(d) == [i \in 1..Len(d) |-> d[i].key]

\* s.startswith(prefix), both as word sequences: the prefixes the program uses
\* end at a word boundary of every label of the model.
StartsWith(s, prefix) ==
  Len(prefix) <= Len(s) /\ SubSeq(s, 1, Len(prefix)) = prefix

\* word in s, for a word sequence s.
ContainsWord(s, word) == \E i \in 1..Len(s) : s[i] = word

-----------------------------------------------------------------------------
(* QUESTIONS CONFIGURATION (lines 480-673).                                *)

QuestionsSource ==
  <<
    [id |-> "housing_stability",
     prompt |-> "Can you tell me a bit about how secure or stable your current living situation feels?",
     weight |-> 20,
     options |-> <<
        [label |-> <<"Very", "secure", "-", "I", "have", "stable,", "long-term", "housing">>,
         score |-> 0],
        [label |-> <<"Fairly", "secure", "-", "but", "some", "uncertainty">>,
         score |-> 4],
        [label |-> <<"Uncertain", "-", "my", "situation", "could", "change", "soon">>,
         score |-> 10],
        [label |-> <<"Unstable", "-", "I", "may", "lose", "my", "home", "in", "the", "coming", "weeks">>,
         score |-> 16],
        [label |-> <<"Crisis", "-", "I", "am", "homeless", "or", "about", "to", "be">>,
         score |-> 20] >>,
     risk_keywords |-> <<"eviction", "homeless", "rough sleeping", "temporary", "sofa surfing", "notice">>],
    [id |-> "financial_pressure",
     prompt |-> "How are finances affecting your day-to-day life - do money pressures feel overwhelming right now?",
     weight |-> 25,
     options |-> <<
        [label |-> <<"Finances", "are", "comfortable", "-", "no", "concerns">>,
         score |-> 0],
        [label |-> <<"Managing", "okay", "-", "occasional", "tight", "moments">>,
         score |-> 5],
        [label |-> <<"Struggling", "-", "frequently", "worried", "about", "money">>,
         score |-> 12],
        [label |-> <<"Severe", "pressure", "-", "behind", "on", "essential", "bills">>,
         score |-> 19],
        [label |-> <<"Crisis", "-", "cannot", "afford", "basic", "needs,", "facing", "debt", "action">>,
         score |-> 25] >>,
     risk_keywords |-> <<"debt", "arrears", "benefits", "universal credit", "income", "unemployed", "bills">>],
    [id |-> "health_work_impact",
     prompt |-> "Do you have any health conditions or disabilities that affect your ability to work or could put pressure on your finances?",
     weight |-> 15,
     options |-> <<
        [label |-> <<"No", "-", "my", "health", "doesn't", "affect", "my", "ability", "to", "work">>,
         score |-> 0],
        [label |-> <<"Minor", "impact", "-", "I", "can", "work", "with", "some", "adjustments">>,
         score |-> 3],
        [label |-> <<"Moderate", "impact", "-", "limits", "the", "work", "I", "can", "do">>,
         score |-> 7],
        [label |-> <<"Significant", "impact", "-", "unable", "to", "work", "full-time">>,
         score |-> 11],
        [label |-> <<"Severe", "-", "unable", "to", "work", "due", "to", "health/disability">>,
         score |-> 15] >>,
     risk_keywords |-> <<"disability", "unable to work", "PIP", "ESA", "long-term sick", "chronic illness", "limited capability">>],
    [id |-> "mental_health",
     prompt |-> "Would you like to talk about your mental health or emotional wellbeing?",
     weight |-> 10,
     options |-> <<
        [label |-> <<"I'm", "doing", "well", "emotionally">>,
         score |-> 0],
        [label |-> <<"Some", "stress", "but", "coping", "okay">>,
         score |-> 2],
        [label |-> <<"Struggling", "-", "anxiety,", "low", "mood", "affecting", "me">>,
         score |-> 5],
        [label |-> <<"Significant", "difficulties", "-", "impacting", "daily", "life">>,
         score |-> 7],
        [label |-> <<"In", "crisis", "-", "need", "urgent", "mental", "health", "support">>,
         score |-> 10] >>,
     risk_keywords |-> <<"mental health", "depression", "anxiety", "stress", "suicidal", "crisis">>],
    [id |-> "abuse_safety",
     prompt |-> "Have you experienced situations, like abuse or violence, that impact your safety or stability?",
     weight |-> 10,
     options |-> <<
        [label |-> <<"No", "-", "I", "feel", "safe">>,
         score |-> 0],
        [label |-> <<"Past", "experiences", "-", "but", "currently", "safe">>,
         score |-> 3],
        [label |-> <<"Some", "concerns", "about", "safety">>,
         score |-> 6],
        [label |-> <<"Currently", "experiencing", "abuse", "or", "control">>,
         score |-> 8],
        [label |-> <<"In", "immediate", "danger", "-", "need", "to", "leave">>,
         score |-> 10] >>,
     risk_keywords |-> <<"domestic abuse", "violence", "fleeing", "refuge", "controlling", "fear">>],
    [id |-> "care_leaver",
     prompt |-> "Are you preparing to leave care services, or have you recently transitioned out of them?",
     weight |-> 5,
     options |-> <<
        [label |-> <<"This", "doesn't", "apply", "to", "me">>,
         score |-> 0],
        [label |-> <<"Left", "care", "several", "years", "ago">>,
         score |-> 1],
        [label |-> <<"Left", "care", "in", "the", "past", "2-3", "years">>,
         score |-> 2],
        [label |-> <<"Recently", "left", "care", "(within", "12", "months)">>,
         score |-> 4],
        [label |-> <<"Currently", "preparing", "to", "leave", "care">>,
         score |-> 5] >>,
     risk_keywords |-> <<"care leaver", "foster care", "looked after", "leaving care", "personal adviser">>],
    [id |-> "institutional_discharge",
     prompt |-> "Have you recently left prison or another institution, and are you adjusting to life outside?",
     weight |-> 5,
     options |-> <<
        [label |-> <<"This", "doesn't", "apply", "to", "me">>,
         score |-> 0],
        [label |-> <<"Left", "an", "institution", "over", "a", "year", "ago">>,
         score |-> 1],
        [label |-> <<"Left", "within", "the", "past", "year">>,
         score |-> 2],
        [label |-> <<"Recently", "released", "(past", "3", "months)">>,
         score |-> 4],
        [label |-> <<"Just", "released", "/", "about", "to", "be", "released">>,
         score |-> 5] >>,
     risk_keywords |-> <<"prison", "hospital discharge", "rehabilitation", "probation", "resettlement">>],
    [id |-> "benefits_access",
     prompt |-> "Do you feel confident about the benefits or entitlements you can access, or would support help?",
     weight |-> 5,
     options |-> <<
        [label |-> <<"Yes", "-", "I", "receive", "everything", "I'm", "entitled", "to">>,
         score |-> 0],
        [label |-> <<"Mostly", "-", "but", "might", "be", "missing", "something">>,
         score |-> 1],
        [label |-> <<"Unsure", "-", "I", "don't", "know", "what", "I", "can", "claim">>,
         score |-> 3],
        [label |-> <<"Struggling", "to", "access", "benefits", "I", "need">>,
         score |-> 4],
        [label |-> <<"Benefits", "stopped", "or", "refused", "-", "need", "urgent", "help">>,
         score |-> 5] >>,
     risk_keywords |-> <<"benefits", "universal credit", "PIP", "housing benefit", "sanctions", "appeal">>],
    [id |-> "support_network",
     prompt |-> "Who do you feel you can rely on right now - family, friends, or community networks?",
     weight |-> 3,
     options |-> <<
        [label |-> <<"Strong", "support", "network", "-", "family", "and", "friends">>,
         score |-> 0],
        [label |-> <<"Some", "support", "available">>,
         score |-> 1],
        [label |-> <<"Limited", "support", "-", "one", "or", "two", "people">>,
         score |-> 2],
        [label |-> <<"Very", "little", "support", "-", "mostly", "alone">>,
         score |-> 2],
        [label |-> <<"No", "support", "-", "completely", "isolated">>,
         score |-> 3] >>,
     risk_keywords |-> <<"isolated", "alone", "no family", "estranged", "breakdown">>],
    [id |-> "service_interest",
     prompt |-> "Would it be useful if I showed you local and national services that match your needs?",
     weight |-> 2,
     options |-> <<
        [label |-> <<"Not", "needed", "right", "now", "-", "just", "exploring">>,
         score |-> 0],
        [label |-> <<"Maybe", "-", "would", "like", "to", "know", "what's", "available">>,
         score |-> 1],
        [label |-> <<"Yes", "-", "I'd", "like", "some", "guidance">>,
         score |-> 1],
        [label |-> <<"Definitely", "-", "I", "need", "help", "finding", "services">>,
         score |-> 2],
        [label |-> <<"Urgent", "-", "I", "need", "immediate", "support", "connections">>,
         score |-> 2] >>,
     risk_keywords |-> <<>>]
  >>

\* The ids of the catalog, in catalog order.
QuestionIds == [i \in 1..Len(QUESTIONS) |-> QUESTIONS[i].id]

\* answer in q["options"]
HasOption(q, answer) == \E k \in 1..Len(q.options) : q.options[k].label = answer

\* q["options"][answer]
OptionScore(q, answer) ==
  q.options[CHOOSE k \in 1..Len(q.options) : q.options[k].label = answer].score

RECURSIVE SumWeights(_, _)
SumWeights(questions, n) ==
  IF n = 0 THEN 0 ELSE SumWeights(questions, n - 1) + questions[n].weight

\* Mutant: the assertion accepts any sum of at least 100.
WeightAssertionAtLeast(questions) == SumWeights(questions, Len(questions)) >= 100

\* assert sum(q["weight"] for q in QUESTIONS) == 100, "Weights must sum to 100"
WeightAssertion(questions) == SumWeights(questions, Len(questions)) = 100

-----------------------------------------------------------------------------
(* HELPER FUNCTIONS: get_risk_band, build_llm_payload, generate_reference. *)

\* Mutant: the thresholds are exclusive.
get_risk_band_exclusive(s) ==
  IF s > 60
    THEN <<"HIGH", "risk-high", "Urgent intervention recommended", "Within 24 hours">>
    ELSE IF s > 35
      THEN <<"MEDIUM", "risk-medium", "Priority support pathway", "Within 3 working days">>
      ELSE <<"LOW", "risk-low", "Standard support pathway", "Within 10 working days">>

get_risk_band(s) ==
  IF s >= 60
    THEN <<"HIGH", "risk-high", "Urgent intervention recommended", "Within 24 hours">>
    ELSE IF s >= 35
      THEN <<"MEDIUM", "risk-medium", "Priority support pathway", "Within 3 working days">>
      ELSE <<"LOW", "risk-low", "Standard support pathway", "Within 10 working days">>

\* Mutant: the flag test asks for more than 80% of the weight.
ExceedsEightyPercent(sc, weight) == 5 * sc > 4 * weight

\* Mutant: the weight is left out of the flag test.
ExceedsSixtyPercentOfTen(sc, weight) == sc > 6

\* Mutant: a score of exactly 60% of the weight counts.
ExceedsSixtyPercentInclusive(sc, weight) == 5 * sc >= 3 * weight

\* score > q["weight"] * 0.6.  The product is an IEEE double: 0.6 is stored as
\* 0.6 - 2^-53/5, and weight * 0.6 rounds to the integer 3*weight/5 when that
\* is one and stays 0.2 or more away from every integer when it is not, so for
\* integer score and weight the comparison is the exact one, 5*score > 3*weight.
ExceedsSixtyPercent(sc, weight) == 5 * sc > 3 * weight

\* Mutant: the housing test forgets the "Unstable" prefix.
IsCrisisAnswerNoUnstable(q_id, answer) ==
  \/ q_id = "housing_stability" /\ StartsWith(answer, <<"Crisis">>)
  \/ q_id = "abuse_safety" /\ StartsWith(answer, <<"In", "immediate", "danger">>)
  \/ q_id = "mental_health" /\ StartsWith(answer, <<"In", "crisis">>)

\* The crisis tests of lines 1074-1081 on a recognized answer.
IsCrisisAnswer(q_id, answer) ==
  \/ /\ q_id = "housing_stability"
     /\ StartsWith(answer, <<"Unstable">>) \/ StartsWith(answer, <<"Crisis">>)
  \/ q_id = "abuse_safety" /\ StartsWith(answer, <<"In", "immediate", "danger">>)
  \/ q_id = "mental_health" /\ StartsWith(answer, <<"In", "crisis">>)

\* The locals of build_llm_payload before its loop (lines 1046-1049).
ScoreStart ==
  [total_score |-> 0, category_scores |-> <<>>, risk_flags |-> <<>>,
   crisis_override |-> FALSE]

\* Mutant: total_score += score is repeated inside the risk-flag branch.
ScoreStepDoubleCount(acc, q, resp) ==
  IF ~DictHas(resp, q.id) THEN acc
  ELSE LET answer == DictGet(resp, q.id) IN
    IF ~HasOption(q, answer) THEN acc
    ELSE LET sc == OptionScore(q, answer) IN
      [total_score |->
         acc.total_score + sc + (IF ExceedsSixtyPercent(sc, q.weight) THEN sc ELSE 0),
       category_scores |->
         DictSet(acc.category_scores, q.id,
                 [score |-> sc, max |-> q.weight, answer |-> answer]),
       risk_flags |->
         IF ExceedsSixtyPercent(sc, q.weight)
           THEN Append(acc.risk_flags,
                       [category |-> q.id, concern |-> q.prompt,
                        response |-> answer, keywords |-> q.risk_keywords])
           ELSE acc.risk_flags,
       crisis_override |-> acc.crisis_override \/ IsCrisisAnswer(q.id, answer)]

\* Mutant: the crisis tests sit outside the membership test.
ScoreStepCrisisOnAnyLabel(acc, q, resp) ==
  IF ~DictHas(resp, q.id) THEN acc
  ELSE LET answer == DictGet(resp, q.id) IN
    IF ~HasOption(q, answer)
      THEN [acc EXCEPT !.crisis_override = @ \/ IsCrisisAnswer(q.id, answer)]
    ELSE LET sc == OptionScore(q, answer) IN
      [total_score |-> acc.total_score + sc,
       category_scores |->
         DictSet(acc.category_scores, q.id,
                 [score |-> sc, max |-> q.weight, answer |-> answer]),
       risk_flags |->
         IF ExceedsSixtyPercent(sc, q.weight)
           THEN Append(acc.risk_flags,
                       [category |-> q.id, concern |-> q.prompt,
                        response |-> answer, keywords |-> q.risk_keywords])
           ELSE acc.risk_flags,
       crisis_override |-> acc.crisis_override \/ IsCrisisAnswer(q.id, answer)]

\* Mutant: the score is read with q["options"].get(answer, 0) and the test
\* "answer in q['options']" is gone.
ScoreStepNoMembershipTest(acc, q, resp) ==
  IF ~DictHas(resp, q.id) THEN acc
  ELSE LET answer == DictGet(resp, q.id)
           sc == IF HasOption(q, answer) THEN OptionScore(q, answer) ELSE 0
       IN [total_score |-> acc.total_score + sc,
           category_scores |->
             DictSet(acc.category_scores, q.id,
                     [score |-> sc, max |-> q.weight, answer |-> answer]),
           risk_flags |->
             IF ExceedsSixtyPercent(sc, q.weight)
               THEN Append(acc.risk_flags,
                           [category |-> q.id, concern |-> q.prompt,
                            response |-> answer, keywords |-> q.risk_keywords])
               ELSE acc.risk_flags,
           crisis_override |-> acc.crisis_override \/ IsCrisisAnswer(q.id, answer)]

\* Mutant: the category entry records the weight in its score field.
ScoreStepRecordsWeight(acc, q, resp) ==
  IF ~DictHas(resp, q.id) THEN acc
  ELSE LET answer == DictGet(resp, q.id) IN
    IF ~HasOption(q, answer) THEN acc
    ELSE LET sc == OptionScore(q, answer) IN
      [total_score |-> acc.total_score + sc,
       category_scores |->
         DictSet(acc.category_scores, q.id,
                 [score |-> q.weight, max |-> q.weight, answer |-> answer]),
       risk_flags |->
         IF ExceedsSixtyPercent(sc, q.weight)
           THEN Append(acc.risk_flags,
                       [category |-> q.id, concern |-> q.prompt,
                        response |-> answer, keywords |-> q.risk_keywords])
           ELSE acc.risk_flags,
       crisis_override |-> acc.crisis_override \/ IsCrisisAnswer(q.id, answer)]

\* Mutant: a new risk flag goes to the front of the list.
ScoreStepFlagsPrepended(acc, q, resp) ==
  IF ~DictHas(resp, q.id) THEN acc
  ELSE LET answer == DictGet(resp, q.id) IN
    IF ~HasOption(q, answer) THEN acc
    ELSE LET sc == OptionScore(q, answer) IN
      [total_score |-> acc.total_score + sc,
       category_scores |->
         DictSet(acc.category_scores, q.id,
                 [score |-> sc, max |-> q.weight, answer |-> answer]),
       risk_flags |->
         IF ExceedsSixtyPercent(sc, q.weight)
           THEN <<[category |-> q.id, concern |-> q.prompt,
                   response |-> answer, keywords |-> q.risk_keywords]>>
                \o acc.risk_flags
           ELSE acc.risk_flags,
       crisis_override |-> acc.crisis_override \/ IsCrisisAnswer(q.id, answer)]

\* One iteration of the loop over QUESTIONS (lines 1051-1081).
ScoreStep(acc, q, resp) ==
  IF ~DictHas(resp, q.id) THEN acc
  ELSE LET answer == DictGet(resp, q.id) IN
    IF ~HasOption(q, answer) THEN acc
    ELSE LET sc == OptionScore(q, answer) IN
      [total_score |-> acc.total_score + sc,
       category_scores |->
         DictSet(acc.category_scores, q.id,
                 [score |-> sc, max |-> q.weight, answer |-> answer]),
       risk_flags |->
         IF ExceedsSixtyPercent(sc, q.weight)
           THEN Append(acc.risk_flags,
                       [category |-> q.id, concern |-> q.prompt,
                        response |-> answer, keywords |-> q.risk_keywords])
           ELSE acc.risk_flags,
       crisis_override |-> acc.crisis_override \/ IsCrisisAnswer(q.id, answer)]

RECURSIVE ScoreLoop(_, _)
ScoreLoop(resp, n) ==
  IF n = 0 THEN ScoreStart ELSE ScoreStep(ScoreLoop(resp, n - 1), QUESTIONS[n], resp)

\* Mutant: free text also sets the crisis override.
build_llm_payload_reads_context(resp, context, ref, timestamp) ==
  LET acc == ScoreLoop(resp, Len(QUESTIONS))
      base == get_risk_band(acc.total_score)
      forced == (acc.crisis_override \/ context # "") /\ base[1] # "HIGH"
  IN [reference |-> ref,
      timestamp |-> timestamp,
      assessment |->
        [total_score |-> acc.total_score,
         max_score |-> 100,
         risk_level |-> IF forced THEN "HIGH" ELSE base[1],
         risk_description |->
           IF forced THEN "Crisis indicators present - urgent intervention recommended"
                     ELSE base[3],
         recommended_response_time |-> IF forced THEN "Within 24 hours" ELSE base[4]],
      category_scores |-> acc.category_scores,
      risk_flags |-> acc.risk_flags,
      additional_context |-> context,
      request |-> [generate_support_links |-> TRUE, generate_risk_summary |-> TRUE,
                   locale |-> "en-GB"]]

\* Mutant: the override is applied whatever the base band is.
build_llm_payload_always_overrides(resp, context, ref, timestamp) ==
  LET acc == ScoreLoop(resp, Len(QUESTIONS))
      base == get_risk_band(acc.total_score)
      forced == acc.crisis_override
  IN [reference |-> ref,
      timestamp |-> timestamp,
      assessment |->
        [total_score |-> acc.total_score,
         max_score |-> 100,
         risk_level |-> IF forced THEN "HIGH" ELSE base[1],
         risk_description |->
           IF forced THEN "Crisis indicators present - urgent intervention recommended"
                     ELSE base[3],
         recommended_response_time |-> IF forced THEN "Within 24 hours" ELSE base[4]],
      category_scores |-> acc.category_scores,
      risk_flags |-> acc.risk_flags,
      additional_context |-> context,
      request |-> [generate_support_links |-> TRUE, generate_risk_summary |-> TRUE,
                   locale |-> "en-GB"]]

\* Mutant: the crisis override raises the level and the description but leaves
\* the response time of the base band.
build_llm_payload_level_only(resp, context, ref, timestamp) ==
  LET acc == ScoreLoop(resp, Len(QUESTIONS))
      base == get_risk_band(acc.total_score)
      forced == acc.crisis_override /\ base[1] # "HIGH"
  IN [reference |-> ref,
      timestamp |-> timestamp,
      assessment |->
        [total_score |-> acc.total_score,
         max_score |-> 100,
         risk_level |-> IF forced THEN "HIGH" ELSE base[1],
         risk_description |->
           IF forced THEN "Crisis indicators present - urgent intervention recommended"
                     ELSE base[3],
         recommended_response_time |-> base[4]],
      category_scores |-> acc.category_scores,
      risk_flags |-> acc.risk_flags,
      additional_context |-> context,
      request |-> [generate_support_links |-> TRUE, generate_risk_summary |-> TRUE,
                   locale |-> "en-GB"]]

\* timestamp is the reading datetime.now() gives at line 1090.
build_llm_payload(resp, context, ref, timestamp) ==
  LET acc == ScoreLoop(resp, Len(QUESTIONS))
      base == get_risk_band(acc.total_score)
      forced == acc.crisis_override /\ base[1] # "HIGH"
  IN [reference |-> ref,
      timestamp |-> timestamp,
      assessment |->
        [total_score |-> acc.total_score,
         max_score |-> 100,
         risk_level |-> IF forced THEN "HIGH" ELSE base[1],
         risk_description |->
           IF forced THEN "Crisis indicators present - urgent intervention recommended"
                     ELSE base[3],
         recommended_response_time |-> IF forced THEN "Within 24 hours" ELSE base[4]],
      category_scores |-> acc.category_scores,
      risk_flags |-> acc.risk_flags,
      additional_context |-> context,
      request |-> [generate_support_links |-> TRUE, generate_risk_summary |-> TRUE,
                   locale |-> "en-GB"]]

\* abs(hash(timestamp)) % 10000: Python's str hash is fixed within a process and
\* a function of the string alone; any such function serves.
HashMod(timestamp) == (timestamp * 7919 + 4321) % 10000

\* f"{n:04d}"
Pad4(n) ==
  IF n < 10 THEN "000" \o ToString(n)
  ELSE IF n < 100 THEN "00" \o ToString(n)
  ELSE IF n < 1000 THEN "0" \o ToString(n)
  ELSE ToString(n)

\* t is the reading datetime.now() gives at line 1112; strftime("%Y%m%d%H%M")
\* keeps its minute, written here as the count of minutes.
generate_reference(t) ==
  LET timestamp == t \div TicksPerMinute
  IN JStr(<<"AM-" \o ToString(timestamp) \o "-" \o Pad4(HashMod(timestamp))>>)

-----------------------------------------------------------------------------
(* get_fallback_response (lines 1351-1403).                                *)

\* d.get(key, default) for a dict with str keys.
PyGet(d, key, default) == IF key \in DOMAIN d THEN d[key] ELSE default

\* {}
EmptyDict == [key \in {} |-> None]

\* " ".join(words)
RECURSIVE Join(_)
Join(words) ==
  IF Len(words) = 0 THEN ""
  ELSE IF Len(words) = 1 THEN words[1]
  ELSE words[1] \o " " \o Join(Tail(words))

\* str(x) as an f-string renders it, for None, a str or an int.
PyStr(x) ==
  IF x = None THEN "None" ELSE IF x.t = "str" THEN Join(x.s) ELSE ToString(x.n)

FallbackLinks ==
  <<
    JDict([name |-> JStr(<<"Birmingham", "Council", "Homelessness", "Line">>),
           url |-> JStr(<<"https://www.birmingham.gov.uk/homeless">>),
           phone |-> JStr(<<"0121", "303", "7410">>),
           description |-> JStr(<<"24/7", "housing", "advice", "and", "emergency", "support", "for", "Birmingham", "residents">>),
           priority |-> JStr(<<"high">>)]),
    JDict([name |-> JStr(<<"Shelter", "Birmingham">>),
           url |-> JStr(<<"https://england.shelter.org.uk/get_help/local_services/birmingham">>),
           phone |-> JStr(<<"0808", "800", "4444">>),
           description |-> JStr(<<"Free", "expert", "housing", "advice", "and", "support">>),
           priority |-> JStr(<<"high">>)]),
    JDict([name |-> JStr(<<"Citizens", "Advice", "Birmingham">>),
           url |-> JStr(<<"https://www.citizensadvice.org.uk/local/birmingham/">>),
           phone |-> JStr(<<"0808", "278", "7973">>),
           description |-> JStr(<<"Free", "advice", "on", "benefits,", "debt,", "and", "housing", "issues">>),
           priority |-> JStr(<<"medium">>)])
  >>

\* f['category'].replace('_', ' ').title() on the ids of the catalog.
Titleize(category) ==
  IF category = "housing_stability" THEN <<"Housing", "Stability">>
  ELSE IF category = "financial_pressure" THEN <<"Financial", "Pressure">>
  ELSE IF category = "health_work_impact" THEN <<"Health", "Work", "Impact">>
  ELSE IF category = "mental_health" THEN <<"Mental", "Health">>
  ELSE IF category = "abuse_safety" THEN <<"Abuse", "Safety">>
  ELSE IF category = "care_leaver" THEN <<"Care", "Leaver">>
  ELSE IF category = "institutional_discharge" THEN <<"Institutional", "Discharge">>
  ELSE IF category = "benefits_access" THEN <<"Benefits", "Access">>
  ELSE IF category = "support_network" THEN <<"Support", "Network">>
  ELSE IF category = "service_interest" THEN <<"Service", "Interest">>
  ELSE <<category>>

\* Mutant: the category ids are listed as they are, not titleized.
RECURSIVE FlagTitlesRaw(_, _)
FlagTitlesRaw(flags, n) ==
  IF n = 0 THEN <<>>
  ELSE Append(FlagTitlesRaw(flags, n - 1), JStr(<<flags[n].category>>))

RECURSIVE FlagTitles(_, _)
FlagTitles(flags, n) ==
  IF n = 0 THEN <<>>
  ELSE Append(FlagTitles(flags, n - 1), JStr(Titleize(flags[n].category)))

\* Mutant: risk_level is read from the top level of the payload.
get_fallback_response_top_level(payload) ==
  LET assessment == PyGet(payload, "assessment", EmptyDict)
      risk_level == PyGet(payload, "risk_level", "MEDIUM")
      total == IF "total_score" \in DOMAIN assessment
                 THEN ToString(assessment.total_score) ELSE "N/A"
      flags == PyGet(payload, "risk_flags", <<>>)
  IN JDict(
      [user_response |-> JDict(
         [greeting |-> JStr(<<"Thank", "you", "for", "completing", "this", "assessment.", "Based", "on", "your", "responses,", "we've", "identified", "some", "services", "that", "may", "be", "able", "to", "help", "you.">>),
          support_links |-> JList(FallbackLinks),
          next_steps |-> JStr(
            <<"Your", "reference", "number", "is",
              PyStr(PyGet(payload, "reference", None)) \o ".">> \o
            <<"A", "housing", "support", "officer", "will", "review", "your", "case", "and", "be", "in", "touch", "within", "the", "recommended", "timeframe.">>),
          emergency_note |->
            IF risk_level = "HIGH"
              THEN JStr(<<"If", "you", "need", "immediate", "help", "tonight,", "call", "Birmingham", "Council", "on", "0121", "303", "7410">>)
              ELSE None]),
       officer_summary |-> JDict(
         [risk_level |-> JStr(<<risk_level>>),
          key_concerns |-> JList(
            <<JStr(<<"Score:", total \o "/100">>)>> \o FlagTitles(flags, Len(flags))),
          recommended_actions |-> JList(
            <<JStr(<<"Review", "full", "assessment">>),
              JStr(<<"Contact", "citizen", "within", "recommended", "timeframe">>)>>),
          referral_suggestions |-> JList(
            <<JStr(<<"Based", "on", "risk", "flags", "-", "see", "assessment", "details">>)>>),
          notes |-> JStr(<<"Automated", "fallback", "response", "-", "LLM", "analysis", "was", "unavailable.", "Manual", "review", "recommended.">>)])])

get_fallback_response(payload) ==
  LET assessment == PyGet(payload, "assessment", EmptyDict)
      risk_level == PyGet(assessment, "risk_level", "MEDIUM")
      total == IF "total_score" \in DOMAIN assessment
                 THEN ToString(assessment.total_score) ELSE "N/A"
      flags == PyGet(payload, "risk_flags", <<>>)
  IN JDict(
      [user_response |-> JDict(
         [greeting |-> JStr(<<"Thank", "you", "for", "completing", "this", "assessment.", "Based", "on", "your", "responses,", "we've", "identified", "some", "services", "that", "may", "be", "able", "to", "help", "you.">>),
          support_links |-> JList(FallbackLinks),
          next_steps |-> JStr(
            <<"Your", "reference", "number", "is",
              PyStr(PyGet(payload, "reference", None)) \o ".">> \o
            <<"A", "housing", "support", "officer", "will", "review", "your", "case", "and", "be", "in", "touch", "within", "the", "recommended", "timeframe.">>),
          emergency_note |->
            IF risk_level = "HIGH"
              THEN JStr(<<"If", "you", "need", "immediate", "help", "tonight,", "call", "Birmingham", "Council", "on", "0121", "303", "7410">>)
              ELSE None]),
       officer_summary |-> JDict(
         [risk_level |-> JStr(<<risk_level>>),
          key_concerns |-> JList(
            <<JStr(<<"Score:", total \o "/100">>)>> \o FlagTitles(flags, Len(flags))),
          recommended_actions |-> JList(
            <<JStr(<<"Review", "full", "assessment">>),
              JStr(<<"Contact", "citizen", "within", "recommended", "timeframe">>)>>),
          referral_suggestions |-> JList(
            <<JStr(<<"Based", "on", "risk", "flags", "-", "see", "assessment", "details">>)>>),
          notes |-> JStr(<<"Automated", "fallback", "response", "-", "LLM", "analysis", "was", "unavailable.", "Manual", "review", "recommended.">>)])])

-----------------------------------------------------------------------------
(* json.loads on the text of a reply (line 1187).  A text that holds JSON  *)
(* is the sequence of its lexemes: [k |-> "punct", c |-> "{"], [k |->      *)
(* "string", s |-> the words of the str], [k |-> "number", n |-> n],       *)
(* [k |-> "word", w |-> "null"], and [k |-> "bad", x |-> w] for a run of   *)
(* characters no JSON scanner accepts.  The key of a member is the str of  *)
(* its lexeme.                                                             *)

Punct(c) == [k |-> "punct", c |-> c]
StrLex(words) == [k |-> "string", s |-> words]
NumLex(n) == [k |-> "number", n |-> n]
Word(w) == [k |-> "word", w |-> w]
Bad(x) == [k |-> "bad", x |-> x]

IsPunct(toks, i, c) == i <= Len(toks) /\ toks[i].k = "punct" /\ toks[i].c = c

ParseFail == [ok |-> FALSE, val |-> None, next |-> 0]
Parsed(val, next) == [ok |-> TRUE, val |-> val, next |-> next]

RECURSIVE ParseValue(_, _)
RECURSIVE ParseItems(_, _, _)
RECURSIVE ParseMembers(_, _, _)

\* One JSON value starting at lexeme i.
ParseValue(toks, i) ==
  IF i > Len(toks) THEN ParseFail
  ELSE LET tok == toks[i] IN
    IF tok.k = "string" THEN Parsed(JStr(tok.s), i + 1)
    ELSE IF tok.k = "number" THEN Parsed(JNum(tok.n), i + 1)
    ELSE IF tok.k = "word" THEN
      IF tok.w = "null" THEN Parsed(None, i + 1)
      ELSE IF tok.w = "true" THEN Parsed(JBool(TRUE), i + 1)
      ELSE IF tok.w = "false" THEN Parsed(JBool(FALSE), i + 1)
      ELSE ParseFail
    ELSE IF tok.k = "punct" /\ tok.c = "[" THEN
      IF IsPunct(toks, i + 1, "]") THEN Parsed(JList(<<>>), i + 2)
      ELSE ParseItems(toks, i + 1, <<>>)
    ELSE IF tok.k = "punct" /\ tok.c = "{" THEN
      IF IsPunct(toks, i + 1, "}") THEN Parsed(JDict(EmptyDict), i + 2)
      ELSE ParseMembers(toks, i + 1, EmptyDict)
    ELSE ParseFail

\* value ("," value)* "]", the items so far in acc.
ParseItems(toks, i, acc) ==
  LET item == ParseValue(toks, i) IN
  IF ~item.ok THEN ParseFail
  ELSE IF IsPunct(toks, item.next, ",")
    THEN ParseItems(toks, item.next + 1, Append(acc, item.val))
  ELSE IF IsPunct(toks, item.next, "]")
    THEN Parsed(JList(Append(acc, item.val)), item.next + 1)
  ELSE ParseFail

\* string ":" value ("," string ":" value)* "}"; a repeated key keeps the last value.
ParseMembers(toks, i, acc) ==
  IF ~(i <= Len(toks) /\ toks[i].k = "string" /\ IsPunct(toks, i + 1, ":")) THEN ParseFail
  ELSE LET member == ParseValue(toks, i + 2) IN
    IF ~member.ok THEN ParseFail
    ELSE LET key == Join(toks[i].s)
             d == [x \in DOMAIN acc \cup {key} |-> IF x = key THEN member.val ELSE acc[x]]
         IN IF IsPunct(toks, member.next, ",") THEN ParseMembers(toks, member.next + 1, d)
            ELSE IF IsPunct(toks, member.next, "}") THEN Parsed(JDict(d), member.next + 1)
            ELSE ParseFail

\* json.loads(content): [raised |-> the exception or "none", value |-> the result].
\* A content that is no str raises TypeError; a str that is not one JSON value,
\* or has lexemes left after it, raises JSONDecodeError; so does a str given by
\* its words, which holds no JSON.
json_loads(content) ==
  IF content.t # "str" THEN [raised |-> "TypeError", value |-> None]
  ELSE IF "lex" \notin DOMAIN content THEN [raised |-> "JSONDecodeError", value |-> None]
  ELSE LET r == ParseValue(content.lex, 1) IN
    IF r.ok /\ r.next = Len(content.lex) + 1
      THEN [raised |-> "none", value |-> r.val]
      ELSE [raised |-> "JSONDecodeError", value |-> None]

-----------------------------------------------------------------------------
(* _bedrock_http_call (lines 1116-1152) and call_bedrock_claude (lines     *)
(* 1155-1192).  A reply is what the network gives back to requests.post:   *)
(*   [kind |-> "ConnectionError" | "Timeout"]  requests.post raises        *)
(*   [kind |-> "status"]                       resp.ok is false            *)
(*   [kind |-> "undecodable"]                  resp.json() raises          *)
(*   [kind |-> "json", data |-> d]             resp.json() returns d       *)

\* The object of a key of a dict keyed by str.
Member(key, val) == [x \in {key} |-> val]

HttpReply(kind) == [kind |-> kind, data |-> None]
JsonReply(data) == [kind |-> "json", data |-> data]

_bedrock_http_call(reply) ==
  IF ~BEDROCK_API_KEY THEN None
  ELSE IF reply.kind \in {"ConnectionError", "Timeout"} THEN None
  ELSE IF reply.kind = "status" THEN None
  ELSE IF reply.kind = "undecodable" THEN None
  ELSE reply.data

\* x[key] for a str key: [ok |-> FALSE] stands for the KeyError or TypeError.
Subscript(x, key) ==
  IF x.ok /\ x.val.t = "dict" /\ key \in DOMAIN x.val.d
    THEN [ok |-> TRUE, val |-> x.val.d[key]]
    ELSE [ok |-> FALSE, val |-> None]

\* x[0]: the first item of a list (IndexError when empty); a dict keyed by str
\* raises KeyError, a non-empty str gives its first character, anything else
\* raises TypeError.
First(x) ==
  IF x.ok /\ x.val.t = "list" /\ Len(x.val.items) >= 1
    THEN [ok |-> TRUE, val |-> x.val.items[1]]
  ELSE IF x.ok /\ x.val.t = "str" /\ x.val # JStr(<<>>) /\ x.val # JText(<<>>)
    THEN [ok |-> TRUE, val |-> JStr(<<"c">>)]
  ELSE [ok |-> FALSE, val |-> None]

\* data["output"]["message"]["content"][0]["text"]
ExtractText(data) ==
  Subscript(First(Subscript(Subscript(Subscript(
    [ok |-> TRUE, val |-> data], "output"), "message"), "content")), "text")

\* [raised |-> the exception that leaves the call or "none", value |-> what it
\*  returns, kind |-> where it ended].
call_bedrock_claude(payload, reply) ==
  LET data == _bedrock_http_call(reply) IN
  IF data = None
    THEN [raised |-> "none", value |-> None,
          kind |-> IF ~BEDROCK_API_KEY THEN "no_key"
                   ELSE IF reply.kind = "json" THEN "null_body" ELSE reply.kind]
  ELSE LET content == ExtractText(data) IN
    IF ~content.ok
      THEN [raised |-> "none", value |-> None, kind |-> "shape"]
    ELSE LET loaded == json_loads(content.val) IN
      IF loaded.raised = "JSONDecodeError"
        THEN [raised |-> "none", value |-> None, kind |-> "invalid_json"]
      ELSE IF loaded.raised # "none"
        THEN [raised |-> loaded.raised, value |-> None, kind |-> "text_type"]
      ELSE [raised |-> "none", value |-> loaded.value, kind |-> "parsed"]
\* A reply in the schema the system prompt asks for.
TextResult ==
  <<Punct("{"), StrLex(<<"user_response">>), Punct(":"), Punct("{"),
    StrLex(<<"greeting">>), Punct(":"),
    StrLex(<<"Hello,", "here", "is", "some", "support", "for", "you">>), Punct(","),
    StrLex(<<"support_links">>), Punct(":"), Punct("["), Punct("{"),
    StrLex(<<"name">>), Punct(":"), StrLex(<<"Shelter", "Birmingham">>), Punct(","),
    StrLex(<<"url">>), Punct(":"), StrLex(<<"https://england.shelter.org.uk">>),
    Punct(","), StrLex(<<"phone">>), Punct(":"), StrLex(<<"0808", "800", "4444">>),
    Punct(","), StrLex(<<"description">>), Punct(":"), StrLex(<<"Housing", "advice">>),
    Punct(","), StrLex(<<"priority">>), Punct(":"), StrLex(<<"high">>), Punct("}"),
    Punct("]"), Punct(","), StrLex(<<"next_steps">>), Punct(":"),
    StrLex(<<"An", "officer", "will", "call", "you">>), Punct(","),
    StrLex(<<"emergency_note">>), Punct(":"), Word("null"), Punct("}"), Punct(","),
    StrLex(<<"officer_summary">>), Punct(":"), Punct("{"), StrLex(<<"risk_level">>),
    Punct(":"), StrLex(<<"HIGH">>), Punct(","), StrLex(<<"key_concerns">>), Punct(":"),
    Punct("["), StrLex(<<"Housing">>), Punct("]"), Punct(","),
    StrLex(<<"recommended_actions">>), Punct(":"), Punct("["),
    StrLex(<<"Call", "today">>), Punct("]"), Punct(","),
    StrLex(<<"referral_suggestions">>), Punct(":"), Punct("["), StrLex(<<"Shelter">>),
    Punct("]"), Punct(","), StrLex(<<"notes">>), Punct(":"),
    StrLex(<<"Remote", "analysis">>), Punct("}"), Punct("}")>>

\* user_response is a str where a mapping is expected.
TextStringUserResponse ==
  <<Punct("{"), StrLex(<<"user_response">>), Punct(":"),
    StrLex(<<"Please", "call", "the", "council", "today">>), Punct(","),
    StrLex(<<"officer_summary">>), Punct(":"), Punct("{"), StrLex(<<"risk_level">>),
    Punct(":"), StrLex(<<"LOW">>), Punct(","), StrLex(<<"notes">>), Punct(":"),
    StrLex(<<"Remote", "analysis">>), Punct("}"), Punct("}")>>

\* user_response is a str that carries markup, a double blank (the empty
\* word) and a character reference.
TextMarkupUserResponse ==
  <<Punct("{"), StrLex(<<"user_response">>), Punct(":"),
    StrLex(<<"<b>", "Please", "</b>", "call", "", "us", "&amp;", "stay", "safe">>),
    Punct(","), StrLex(<<"officer_summary">>), Punct(":"), Punct("{"),
    StrLex(<<"risk_level">>), Punct(":"), StrLex(<<"LOW">>), Punct(","),
    StrLex(<<"notes">>), Punct(":"), StrLex(<<"Remote", "analysis">>), Punct("}"),
    Punct("}")>>

\* user_response is the empty str.
TextEmptyUserResponse ==
  <<Punct("{"), StrLex(<<"user_response">>), Punct(":"), StrLex(<<>>), Punct(","),
    StrLex(<<"officer_summary">>), Punct(":"), Punct("{"),
    StrLex(<<"risk_level">>), Punct(":"), StrLex(<<"LOW">>), Punct(","),
    StrLex(<<"notes">>), Punct(":"), StrLex(<<"Remote", "analysis">>), Punct("}"),
    Punct("}")>>

\* A JSON list.
TextList ==
  <<Punct("["), StrLex(<<"call">>), Punct(","), StrLex(<<"us">>), Punct("]")>>

\* A JSON string.
TextString ==
  <<StrLex(<<"hello">>)>>

\* A JSON number.
TextNumber ==
  <<NumLex(7)>>

\* The JSON null.
TextNull ==
  <<Word("null")>>

\* Prose, not JSON.
TextProse ==
  <<Bad("Sorry"), Punct(","), Bad("I"), Bad("cannot"), Bad("help")>>

\* A JSON value with text after it.
TextTrailing ==
  <<Punct("{"), StrLex(<<"user_response">>), Punct(":"), Punct("{"), Punct("}"),
    Punct("}"), Bad("Thanks")>>

\* A reply cut off by the output-length cap.
TextTruncated ==
  <<Punct("{"), StrLex(<<"user_response">>), Punct(":"), Punct("{"),
    StrLex(<<"greeting">>), Punct(":"), StrLex(<<"Hello">>), Punct(",")>>

-----------------------------------------------------------------------------
(* The session state of lines 1454-1469, and the inputs of the model.      *)

SessionDefaults ==
  /\ page = "welcome"
  /\ current_question = 0
  /\ responses = <<>>
  /\ additional_context = ""
  /\ reference = None
  /\ llm_payload = None
  /\ llm_response = None
  /\ used_fallback = FALSE

NoCall == [op |-> "none", kind |-> "none", sent |-> None, prior_fallback |-> FALSE]

\* What the user may type into the free-text area.
Contexts == {"", "I was served a section 21 notice"}

\* Labels that are no option of any question; the second and later ones of a
\* crisis category begin like that category's crisis options.
UnknownLabels(q_id) ==
  <<<<"something", "else">>>> \o
  (IF q_id = "housing_stability" THEN << <<"Crisis", "now">>, <<"Unstable">> >>
   ELSE IF q_id = "abuse_safety" THEN << <<"In", "immediate", "danger", "tonight">> >>
   ELSE IF q_id = "mental_health" THEN << <<"In", "crisis", "today">> >>
   ELSE <<>>)

\* The choices for question i of a scoring request: 0 leaves it out, k in
\* 1..Len(options) answers with the k-th option, a larger k with an unknown label.
NumChoices(i) ==
  Len(QuestionsSource[i].options) + Len(UnknownLabels(QuestionsSource[i].id))

ChoiceLabel(i, c) ==
  LET q == QuestionsSource[i] IN
  IF c <= Len(q.options) THEN q.options[c].label
  ELSE UnknownLabels(q.id)[c - Len(q.options)]

\* A base profile b (0: nothing answered; k: every question answered with its
\* k-th option) from which the questions in DOMAIN f depart, f[i] being the
\* choice for question i.
RECURSIVE MkAnswers(_, _, _)
MkAnswers(b, f, n) ==
  IF n = 0 THEN <<>>
  ELSE LET prev == MkAnswers(b, f, n - 1)
           c == IF n \in DOMAIN f THEN f[n] ELSE b
       IN IF c = 0 THEN prev
          ELSE Append(prev, [key |-> QuestionsSource[n].id, value |-> ChoiceLabel(n, c)])

MaxChoices == Len(QuestionsSource[1].options) + Len(UnknownLabels("housing_stability"))

FreeChoices ==
  UNION { { f \in [S -> 0..MaxChoices] : \A i \in S : f[i] <= NumChoices(i) } :
          S \in { T \in SUBSET (1..Len(QuestionsSource)) : Cardinality(T) <= MaxFree } }

BaseProfiles == 0..Len(QuestionsSource[1].options)

-----------------------------------------------------------------------------
(* SpecBand: get_risk_band applied to every score of a range.              *)

InitBand ==
  /\ QUESTIONS = QuestionsSource
  /\ BEDROCK_API_KEY = TRUE
  /\ phase = "ready"
  /\ SessionDefaults
  /\ now = 0
  /\ exc = "none"
  /\ last_call = NoCall
  /\ written = <<>>
  /\ issued = {}
  /\ score \in (0 - MaxBandInput)..MaxBandInput
  /\ band = <<>>

ApplyRiskBand ==
  /\ band = <<>>
  /\ band' = get_risk_band(score)
  /\ UNCHANGED <<moduleVars, sessionVars, runVars, score>>

NextBand == ApplyRiskBand

SpecBand == InitBand /\ [][NextBand]_vars

-----------------------------------------------------------------------------
(* SpecScore: build_llm_payload applied to a scoring request.              *)

InitScore ==
  /\ QUESTIONS = QuestionsSource
  /\ BEDROCK_API_KEY = TRUE
  /\ phase = "ready"
  /\ page = "welcome"
  /\ current_question = 0
  /\ \E b \in BaseProfiles, f \in FreeChoices :
       responses = MkAnswers(b, f, Len(QuestionsSource))
  /\ additional_context = ""
  /\ reference = generate_reference(0)
  /\ llm_payload = None
  /\ llm_response = None
  /\ used_fallback = FALSE
  /\ now = 0
  /\ exc = "none"
  /\ last_call = NoCall
  /\ written = <<>>
  /\ issued = {}
  /\ score = 0
  /\ band = <<>>

BuildPayload ==
  /\ llm_payload = None
  /\ llm_payload' = build_llm_payload(responses, additional_context, reference, now)
  /\ UNCHANGED <<moduleVars, page, current_question, responses, additional_context,
                 reference, llm_response, used_fallback, runVars, bandVars>>

NextScore == BuildPayload

SpecScore == InitScore /\ [][NextScore]_vars

\* The scoring requests that depart from their base profile in at most
\* MaxDepart questions.
NearChoices ==
  UNION { { f \in [S -> 0..MaxChoices] : \A i \in S : f[i] <= NumChoices(i) } :
          S \in { T \in SUBSET (1..Len(QuestionsSource)) : Cardinality(T) <= MaxDepart } }

InitScoreNear ==
  /\ QUESTIONS = QuestionsSource
  /\ BEDROCK_API_KEY = TRUE
  /\ phase = "ready"
  /\ page = "welcome"
  /\ current_question = 0
  /\ \E b \in BaseProfiles, f \in NearChoices :
       responses = MkAnswers(b, f, Len(QuestionsSource))
  /\ additional_context = ""
  /\ reference = generate_reference(0)
  /\ llm_payload = None
  /\ llm_response = None
  /\ used_fallback = FALSE
  /\ now = 0
  /\ exc = "none"
  /\ last_call = NoCall
  /\ written = <<>>
  /\ issued = {}
  /\ score = 0
  /\ band = <<>>

SpecScoreNear == InitScoreNear /\ [][NextScore]_vars

-----------------------------------------------------------------------------
(* What the network may give back to one call (requests.post, line 1133).  *)

-----------------------------------------------------------------------------
(* SpecUnflagged: build_llm_payload applied to the scoring requests around *)
(* the highest-scoring one that raises no risk flag.                       *)

\* The options of question i that raise no risk flag.
UnflaggedOptions(i) ==
  { k \in 1..Len(QuestionsSource[i].options) :
      ~ExceedsSixtyPercent(QuestionsSource[i].options[k].score, QuestionsSource[i].weight) }

\* The first of the highest-scoring options of question i that raise no flag.
HighestUnflagged(i) ==
  CHOOSE k \in UnflaggedOptions(i) :
    \A j \in UnflaggedOptions(i) :
      \/ QuestionsSource[i].options[j].score < QuestionsSource[i].options[k].score
      \/ /\ QuestionsSource[i].options[j].score = QuestionsSource[i].options[k].score
         /\ k <= j

\* Every question answered with HighestUnflagged, but for the questions in
\* DOMAIN f, where f gives the choice.
AroundUnflagged(f) ==
  [i \in 1..Len(QuestionsSource) |-> IF i \in DOMAIN f THEN f[i] ELSE HighestUnflagged(i)]

InitUnflagged ==
  /\ QUESTIONS = QuestionsSource
  /\ BEDROCK_API_KEY = TRUE
  /\ phase = "ready"
  /\ page = "welcome"
  /\ current_question = 0
  /\ \E f \in FreeChoices :
       responses = MkAnswers(0, AroundUnflagged(f), Len(QuestionsSource))
  /\ additional_context = ""
  /\ reference = generate_reference(0)
  /\ llm_payload = None
  /\ llm_response = None
  /\ used_fallback = FALSE
  /\ now = 0
  /\ exc = "none"
  /\ last_call = NoCall
  /\ written = <<>>
  /\ issued = {}
  /\ score = 0
  /\ band = <<>>

SpecUnflagged == InitUnflagged /\ [][NextScore]_vars

\* {"output": {"message": {"content": [{"text": text}]}}}
Envelope(text) ==
  JDict(Member("output", JDict(Member("message", JDict(Member("content",
    JList(<<JDict(Member("text", text))>>)))))))

Texts ==
  {TextResult, TextStringUserResponse, TextMarkupUserResponse, TextEmptyUserResponse,
   TextList, TextString, TextNumber, TextNull, TextProse, TextTrailing, TextTruncated,
   <<>>}

Replies ==
  {HttpReply("ConnectionError"), HttpReply("Timeout"), HttpReply("status"),
   HttpReply("undecodable")}
  \cup {JsonReply(None),
        JsonReply(JList(<<>>)),
        JsonReply(JDict(Member("message", JStr(<<"Too", "many", "requests">>)))),
        JsonReply(JDict(Member("output", JDict(Member("message",
          JDict(Member("content", JList(<<>>)))))))),
        JsonReply(Envelope(JNum(7))),
        JsonReply(Envelope(None))}
  \cup {JsonReply(Envelope(JText(text))) : text \in Texts}

-----------------------------------------------------------------------------
(* The script: module top level, then main() dispatching on the page.      *)
(* One action is one run of the script on one user event, reruns included. *)

\* Lines 68-70 and 675: the top-level code up to the weight assertion.
ModuleLoad ==
  /\ phase = "loading"
  /\ BEDROCK_API_KEY' \in BOOLEAN
  /\ phase' = IF WeightAssertion(QUESTIONS) THEN "ready" ELSE "failed"
  /\ exc' = IF WeightAssertion(QUESTIONS) THEN "none" ELSE "AssertionError"
  /\ written' = <<>>
  /\ UNCHANGED <<QUESTIONS, sessionVars, now, last_call, issued, bandVars>>

\* render_welcome: Begin Assessment.
BeginAssessment ==
  /\ phase = "ready" /\ page = "welcome"
  /\ page' = "question"
  /\ current_question' = 0
  /\ exc' = "none"
  /\ written' = <<>>
  /\ UNCHANGED <<moduleVars, responses, additional_context, reference, llm_payload,
                 llm_response, used_fallback, now, last_call, issued, bandVars>>

\* The question render_question shows (q_idx counts from 0).
CurrentQuestion == QUESTIONS[current_question + 1]

\* The value of the radio: the stored answer when it is one of the options.
Selected(q) ==
  IF DictHas(responses, q.id) /\ HasOption(q, DictGet(responses, q.id))
    THEN DictGet(responses, q.id) ELSE None

\* The options the user of the model picks from.
Pickable(q_idx) ==
  IF q_idx < MaxVaried THEN 1..Len(QUESTIONS[q_idx + 1].options) ELSE {1}

\* render_question: the user picks option k of the radio.
SelectAnswer(k) ==
  /\ phase = "ready" /\ page = "question"
  /\ current_question < Len(QUESTIONS)
  /\ k \in Pickable(current_question)
  /\ responses' = DictSet(responses, CurrentQuestion.id, CurrentQuestion.options[k].label)
  /\ exc' = "none"
  /\ written' = <<>>
  /\ UNCHANGED <<moduleVars, page, current_question, additional_context, reference,
                 llm_payload, llm_response, used_fallback, now, last_call, issued, bandVars>>

\* render_question: Back.
QuestionBack ==
  /\ phase = "ready" /\ page = "question"
  /\ current_question < Len(QUESTIONS)
  /\ current_question > 0
  /\ current_question' = current_question - 1
  /\ exc' = "none"
  /\ written' = <<>>
  /\ UNCHANGED <<moduleVars, page, responses, additional_context, reference,
                 llm_payload, llm_response, used_fallback, now, last_call, issued, bandVars>>

\* Mutant: Next is enabled without a selected answer.
QuestionNextWithoutAnswer ==
  /\ phase = "ready" /\ page = "question"
  /\ current_question < Len(QUESTIONS)
  /\ current_question' = current_question + 1
  /\ page' = IF current_question + 1 >= Len(QUESTIONS) THEN "additional" ELSE page
  /\ exc' = "none"
  /\ written' = <<>>
  /\ UNCHANGED <<moduleVars, responses, additional_context, reference, llm_payload,
                 llm_response, used_fallback, now, last_call, issued, bandVars>>

\* render_question: Next / Continue, and the rerun that moves past the last
\* question to the additional page (lines 1517-1520).
QuestionNext ==
  /\ phase = "ready" /\ page = "question"
  /\ current_question < Len(QUESTIONS)
  /\ Selected(CurrentQuestion) # None
  /\ current_question' = current_question + 1
  /\ page' = IF current_question + 1 >= Len(QUESTIONS) THEN "additional" ELSE page
  /\ exc' = "none"
  /\ written' = <<>>
  /\ UNCHANGED <<moduleVars, responses, additional_context, reference, llm_payload,
                 llm_response, used_fallback, now, last_call, issued, bandVars>>

\* render_additional: the user edits the text area.
EditContext(text) ==
  /\ phase = "ready" /\ page = "additional"
  /\ additional_context' = text
  /\ exc' = "none"
  /\ written' = <<>>
  /\ UNCHANGED <<moduleVars, page, current_question, responses, reference,
                 llm_payload, llm_response, used_fallback, now, last_call, issued, bandVars>>

\* render_additional: Back.
AdditionalBack ==
  /\ phase = "ready" /\ page = "additional"
  /\ current_question' = Len(QUESTIONS) - 1
  /\ page' = "question"
  /\ exc' = "none"
  /\ written' = <<>>
  /\ UNCHANGED <<moduleVars, responses, additional_context, reference, llm_payload,
                 llm_response, used_fallback, now, last_call, issued, bandVars>>

\* logging.warning(...) and print(...) at the head of get_fallback_response
\* (lines 1352-1353): what one call writes.
get_fallback_response_output ==
  <<[to |-> "logging.warning", line |-> "Using fallback response - LLM unavailable"],
    [to |-> "stdout", line |-> "Using fallback response - LLM unavailable"]>>

\* x or {} keeps x: x is none of None, False, 0, "", [] and {}.
Truthy(x) ==
  /\ x # None
  /\ x.t = "bool" => x.b
  /\ x.t = "int" => x.n # 0
  /\ x.t = "str" => (IF "s" \in DOMAIN x THEN x.s # <<>> ELSE x.lex # <<>>)
  /\ x.t = "list" => x.items # <<>>
  /\ x.t = "dict" => DOMAIN x.d # {}

\* render_results replaces a stored result that is no dict by the fallback of
\* the payload, for this run only (lines 1668 and 1688-1693).
RenderResultsOutput(stored) ==
  IF Truthy(stored) /\ stored.t # "dict" THEN get_fallback_response_output ELSE <<>>

\* str(x) of a scalar, as words.
StrWords(x) ==
  IF x = None THEN <<"None">>
  ELSE IF x.t = "str" THEN x.s
  ELSE IF x.t = "bool" THEN (IF x.b THEN <<"True">> ELSE <<"False">>)
  ELSE <<ToString(x.n)>>

\* html.unescape on one word: the character references of the model's texts.
html_unescape(w) ==
  IF w = "&amp;" THEN "&" ELSE IF w = "&lt;b&gt;" THEN "<b>" ELSE w

\* A word that re.sub(r"<[^>]+>", " ", text) replaces by a blank.
IsTag(w) == w \in {"<b>", "</b>"}

\* html.escape on one word: the words of the model's texts that hold one of
\* & < > " '.
html_escape(w) ==
  IF w = "&" THEN "&amp;" ELSE IF w = "we've" THEN "we&#x27;ve" ELSE w

\* clean_text_for_html (lines 1027-1033) on None or a scalar; the result as
\* words, the empty word standing for one more blank between two words.
clean_text_for_html(value) ==
  IF ~Truthy(value) THEN <<>>
  ELSE LET src == StrWords(value)
           text == [i \in 1..Len(src) |-> html_unescape(src[i])]
           untagged == [i \in 1..Len(text) |-> IF IsTag(text[i]) THEN "" ELSE text[i]]
           collapsed == SelectSeq(untagged, LAMBDA w : w # "")
       IN [i \in 1..Len(collapsed) |-> html_escape(collapsed[i])]

\* The local llm_response of render_results after lines 1667-1668 and
\* 1688-1693: {} for a falsy stored result, the fallback for one that is no dict.
ShownResponse(stored, payload) ==
  IF ~Truthy(stored) THEN JDict(EmptyDict)
  ELSE IF stored.t # "dict"
    THEN get_fallback_response(IF payload = None THEN EmptyDict ELSE payload)
  ELSE stored

\* "Thank you for completing this assessment." (lines 1722 and 1728)
DefaultGreeting == <<"Thank", "you", "for", "completing", "this", "assessment.">>

\* render_support_card raises on a priority or url that is truthy and no str
\* (lines 1406 and 1425, 1440).
SupportCardRaises(link) ==
  \/ LET priority == PyGet(link.d, "priority", None)
     IN Truthy(priority) /\ priority.t # "str"
  \/ LET url == PyGet(link.d, "url", None)
     IN Truthy(url) /\ url.t # "str"

\* Mutant: a user_response that is no dict is dropped, the default greeting shown.
render_user_view_drops_string(shown) ==
  LET user_resp_raw == PyGet(shown, "user_response", JDict(EmptyDict))
      user_resp == IF user_resp_raw.t = "dict" THEN user_resp_raw.d ELSE EmptyDict
      greeting_src == PyGet(user_resp, "greeting", JStr(DefaultGreeting))
      emergency_raw == PyGet(user_resp, "emergency_note", None)
      links_raw == PyGet(user_resp, "support_links", JList(<<>>))
      support_links == IF links_raw.t = "list" THEN links_raw.items ELSE <<>>
      cards == SelectSeq(support_links, LAMBDA link : link.t = "dict")
  IN [greeting |-> clean_text_for_html(greeting_src),
      emergency |-> [shown |-> Truthy(emergency_raw),
                     text |-> clean_text_for_html(emergency_raw)],
      cards |-> cards,
      raised |-> IF \E i \in 1..Len(cards) : SupportCardRaises(cards[i])
                   THEN "AttributeError" ELSE "none"]

\* render_results, the user tab down to the support cards (lines 1716-1755),
\* on the dict that the local llm_response holds: what is shown and raised.
render_user_view(shown) ==
  LET user_resp_raw == PyGet(shown, "user_response", JDict(EmptyDict))
      user_resp == IF user_resp_raw.t = "dict" THEN user_resp_raw.d ELSE EmptyDict
      greeting_src ==
        IF user_resp_raw.t = "dict"
          THEN PyGet(user_resp, "greeting", JStr(DefaultGreeting))
        ELSE IF StrWords(user_resp_raw) # <<>> THEN JStr(StrWords(user_resp_raw))
        ELSE JStr(DefaultGreeting)
      emergency_raw == PyGet(user_resp, "emergency_note", None)
      links_raw == PyGet(user_resp, "support_links", JList(<<>>))
      support_links == IF links_raw.t = "list" THEN links_raw.items ELSE <<>>
      cards == SelectSeq(support_links, LAMBDA link : link.t = "dict")
  IN [greeting |-> clean_text_for_html(greeting_src),
      emergency |-> [shown |-> Truthy(emergency_raw),
                     text |-> clean_text_for_html(emergency_raw)],
      cards |-> cards,
      raised |-> IF \E i \in 1..Len(cards) : SupportCardRaises(cards[i])
                   THEN "AttributeError" ELSE "none"]

\* The fallback branch of lines 1640-1647 calls get_fallback_response once.
StoreResultOutput(llm_result) ==
  IF llm_result # None THEN <<>> ELSE get_fallback_response_output

\* Mutant: the fallback branch leaves used_fallback as it was.
StoreResultFlagUnset(llm_result, payload) ==
  IF llm_result # None
    THEN /\ llm_response' = llm_result
         /\ used_fallback' = FALSE
    ELSE /\ llm_response' = get_fallback_response(payload)
         /\ UNCHANGED used_fallback

\* The remote result or the fallback is stored (lines 1640-1647).
StoreResult(llm_result, payload) ==
  IF llm_result # None
    THEN /\ llm_response' = llm_result
         /\ used_fallback' = FALSE
    ELSE /\ llm_response' = get_fallback_response(payload)
         /\ used_fallback' = TRUE

\* The payload inside the body a call posts (json.dumps(payload) in the user
\* prompt, lines 1156-1173); without an API key nothing is posted (line 1117).
PostedPayload(payload) == IF BEDROCK_API_KEY THEN payload ELSE None

\* render_additional: Complete Assessment (lines 1630-1650).  t1 and t2 are
\* the clock readings of generate_reference and build_llm_payload.
CompleteAssessment(reply, t1, t2) ==
  /\ phase = "ready" /\ page = "additional"
  /\ now <= t1 /\ t1 <= t2
  /\ LET ref == generate_reference(t1)
         payload == build_llm_payload(responses, additional_context, ref, t2)
         llm_result == call_bedrock_claude(payload, reply)
     IN /\ reference' = ref
        /\ llm_payload' = payload
        /\ last_call' = [op |-> "complete", kind |-> llm_result.kind,
                         sent |-> PostedPayload(payload),
                         prior_fallback |-> used_fallback]
        /\ exc' = llm_result.raised
        /\ IF llm_result.raised # "none"
             THEN /\ UNCHANGED <<llm_response, used_fallback, page>>
                  /\ written' = <<>>
             ELSE /\ StoreResult(llm_result.value, payload)
                  /\ page' = "results"
                  /\ written' = StoreResultOutput(llm_result.value)
                                   \o RenderResultsOutput(llm_result.value)
        /\ issued' = IF llm_result.raised # "none" THEN issued ELSE issued \cup {ref}
  /\ now' = t2
  /\ UNCHANGED <<moduleVars, current_question, responses, additional_context, bandVars>>

\* Mutant: the retry builds the payload again, without the reference.
RetryAnalysisRebuildsPayload(reply) ==
  /\ phase = "ready" /\ page = "results"
  /\ llm_payload # None
  /\ LET payload == build_llm_payload(responses, additional_context, None,
                                      llm_payload.timestamp)
         new_llm == call_bedrock_claude(payload, reply)
     IN /\ llm_payload' = payload
        /\ last_call' = [op |-> "retry", kind |-> new_llm.kind,
                         sent |-> PostedPayload(payload),
                         prior_fallback |-> used_fallback]
        /\ exc' = new_llm.raised
        /\ IF new_llm.raised = "none" /\ new_llm.value # None
             THEN /\ llm_response' = new_llm.value
                  /\ used_fallback' = FALSE
                  /\ written' = RenderResultsOutput(new_llm.value)
             ELSE /\ UNCHANGED <<llm_response, used_fallback>>
                  /\ written' = IF new_llm.raised = "none"
                                   THEN RenderResultsOutput(llm_response) ELSE <<>>
  /\ UNCHANGED <<moduleVars, page, current_question, responses, additional_context,
                 reference, now, issued, bandVars>>

\* Mutant: a successful retry fills in the stored result only where it has no
\* user_response, and leaves the flag.
RetryAnalysisMerges(reply) ==
  /\ phase = "ready" /\ page = "results"
  /\ llm_payload # None
  /\ LET new_llm == call_bedrock_claude(llm_payload, reply)
     IN /\ last_call' = [op |-> "retry", kind |-> new_llm.kind,
                         sent |-> PostedPayload(llm_payload),
                         prior_fallback |-> used_fallback]
        /\ exc' = new_llm.raised
        /\ IF new_llm.raised = "none" /\ new_llm.value # None
             THEN /\ llm_response' =
                       IF llm_response.t = "dict" /\ new_llm.value.t = "dict"
                         THEN JDict([k \in DOMAIN llm_response.d \cup DOMAIN new_llm.value.d |->
                                      IF k \in DOMAIN llm_response.d
                                        THEN llm_response.d[k] ELSE new_llm.value.d[k]])
                         ELSE new_llm.value
                  /\ UNCHANGED used_fallback
                  /\ written' = RenderResultsOutput(new_llm.value)
             ELSE /\ UNCHANGED <<llm_response, used_fallback>>
                  /\ written' = IF new_llm.raised = "none"
                                   THEN RenderResultsOutput(llm_response) ELSE <<>>
  /\ UNCHANGED <<moduleVars, page, current_question, responses, additional_context,
                 reference, llm_payload, now, issued, bandVars>>

\* Mutant: a retry that fails stores the fallback, as Complete Assessment does.
RetryAnalysisFallsBack(reply) ==
  /\ phase = "ready" /\ page = "results"
  /\ llm_payload # None
  /\ LET new_llm == call_bedrock_claude(llm_payload, reply)
     IN /\ last_call' = [op |-> "retry", kind |-> new_llm.kind,
                         sent |-> PostedPayload(llm_payload),
                         prior_fallback |-> used_fallback]
        /\ exc' = new_llm.raised
        /\ IF new_llm.raised = "none" /\ new_llm.value # None
             THEN /\ llm_response' = new_llm.value
                  /\ used_fallback' = FALSE
                  /\ written' = RenderResultsOutput(new_llm.value)
             ELSE /\ llm_response' = get_fallback_response(llm_payload)
                  /\ used_fallback' = TRUE
                  /\ written' = get_fallback_response_output
  /\ UNCHANGED <<moduleVars, page, current_question, responses, additional_context,
                 reference, llm_payload, now, issued, bandVars>>

\* render_results: Retry AI analysis (lines 1667-1685).
RetryAnalysis(reply) ==
  /\ phase = "ready" /\ page = "results"
  /\ llm_payload # None
  /\ LET new_llm == call_bedrock_claude(llm_payload, reply)
     IN /\ last_call' = [op |-> "retry", kind |-> new_llm.kind,
                         sent |-> PostedPayload(llm_payload),
                         prior_fallback |-> used_fallback]
        /\ exc' = new_llm.raised
        /\ IF new_llm.raised = "none" /\ new_llm.value # None
             THEN /\ llm_response' = new_llm.value
                  /\ used_fallback' = FALSE
                  /\ written' = RenderResultsOutput(new_llm.value)
             ELSE /\ UNCHANGED <<llm_response, used_fallback>>
                  /\ written' = IF new_llm.raised = "none"
                                   THEN RenderResultsOutput(llm_response) ELSE <<>>
  /\ UNCHANGED <<moduleVars, page, current_question, responses, additional_context,
                 reference, llm_payload, now, issued, bandVars>>

\* Mutant: Start New Assessment keeps the answers.
StartNewAssessmentKeepsAnswers ==
  /\ phase = "ready" /\ page = "results"
  /\ page' = "welcome"
  /\ current_question' = 0
  /\ additional_context' = ""
  /\ reference' = None
  /\ llm_payload' = None
  /\ llm_response' = None
  /\ used_fallback' = FALSE
  /\ exc' = "none"
  /\ written' = RenderResultsOutput(llm_response)
  /\ last_call' = NoCall
  /\ UNCHANGED <<moduleVars, responses, now, issued, bandVars>>

\* render_results: Start New Assessment (lines 2050-2059).
StartNewAssessment ==
  /\ phase = "ready" /\ page = "results"
  /\ page' = "welcome"
  /\ current_question' = 0
  /\ responses' = <<>>
  /\ additional_context' = ""
  /\ reference' = None
  /\ llm_payload' = None
  /\ llm_response' = None
  /\ used_fallback' = FALSE
  /\ exc' = "none"
  /\ written' = RenderResultsOutput(llm_response)
  /\ last_call' = NoCall
  /\ UNCHANGED <<moduleVars, now, issued, bandVars>>

Init ==
  /\ QUESTIONS = QuestionsSource
  /\ BEDROCK_API_KEY = FALSE
  /\ phase = "loading"
  /\ SessionDefaults
  /\ now = 0
  /\ exc = "none"
  /\ last_call = NoCall
  /\ written = <<>>
  /\ issued = {}
  /\ score = 0
  /\ band = <<>>

Next ==
  \/ ModuleLoad
  \/ BeginAssessment
  \/ \E k \in 1..5 : SelectAnswer(k)
  \/ QuestionBack
  \/ QuestionNext
  \/ \E text \in Contexts : EditContext(text)
  \/ AdditionalBack
  \/ \E reply \in Replies, t1 \in 0..MaxNow, t2 \in 0..MaxNow :
       CompleteAssessment(reply, t1, t2)
  \/ \E reply \in Replies : RetryAnalysis(reply)
  \/ StartNewAssessment

Spec == Init /\ [][Next]_vars

-----------------------------------------------------------------------------
(* SpecFallback: get_fallback_response applied to a payload.               *)

\* A payload that holds its reference and nothing else.
ReferenceOnly == [reference |-> generate_reference(0)]

\* The caller hands over a payload that build_llm_payload did not make.
HandPayload(payload) ==
  /\ llm_payload = None /\ responses = <<>>
  /\ llm_payload' = payload
  /\ UNCHANGED <<moduleVars, page, current_question, responses, additional_context,
                 reference, llm_response, used_fallback, runVars, bandVars>>

ApplyFallback ==
  /\ llm_payload # None /\ llm_response = None
  /\ llm_response' = get_fallback_response(llm_payload)
  /\ written' = get_fallback_response_output
  /\ UNCHANGED <<moduleVars, page, current_question, responses, additional_context,
                 reference, llm_payload, used_fallback, now, exc, last_call, issued, bandVars>>

NextFallback ==
  \/ BuildPayload
  \/ \E payload \in {EmptyDict, ReferenceOnly} : HandPayload(payload)
  \/ ApplyFallback

SpecFallback == InitScore /\ [][NextFallback]_vars

\* The source's catalog with the weight of question i changed by delta.
WithWeight(i, delta) ==
  [n \in 1..Len(QuestionsSource) |->
     IF n = i
       THEN [QuestionsSource[n] EXCEPT !.weight = QuestionsSource[n].weight + delta]
       ELSE QuestionsSource[n]]

\* The catalogs the module may be started with: the source's, and each one
\* that differs from it in one weight.
CandidateCatalogs ==
  { WithWeight(i, delta) :
      i \in 1..Len(QuestionsSource), delta \in (0 - MaxDelta)..MaxDelta }

InitStartup ==
  /\ QUESTIONS \in CandidateCatalogs
  /\ BEDROCK_API_KEY = FALSE
  /\ phase = "loading"
  /\ SessionDefaults
  /\ now = 0
  /\ exc = "none"
  /\ last_call = NoCall
  /\ written = <<>>
  /\ issued = {}
  /\ score = 0
  /\ band = <<>>

SpecStartup == InitStartup /\ [][Next]_vars

\* The source's catalog with the score of option k of question i set to sc.
WithOptionScore(i, k, sc) ==
  [n \in 1..Len(QuestionsSource) |->
     IF n = i
       THEN [QuestionsSource[n] EXCEPT !.options[k].score = sc]
       ELSE QuestionsSource[n]]

\* The source's catalog with question j under the id of question i.
WithDuplicateId(i, j) ==
  [n \in 1..Len(QuestionsSource) |->
     IF n = j
       THEN [QuestionsSource[n] EXCEPT !.id = QuestionsSource[i].id]
       ELSE QuestionsSource[n]]

\* Catalogs an edit of lines 480-673 may leave: one weight changed, one option
\* scoring one more than its question's weight, one id used twice.
EditedCatalogs ==
  CandidateCatalogs
  \cup { WithOptionScore(i, k, QuestionsSource[i].weight + 1) :
           i \in 1..Len(QuestionsSource), k \in 1..Len(QuestionsSource[1].options) }
  \cup { WithDuplicateId(i, j) :
           i \in 1..Len(QuestionsSource), j \in 2..Len(QuestionsSource) }

InitValidate ==
  /\ QUESTIONS \in EditedCatalogs
  /\ BEDROCK_API_KEY = FALSE
  /\ phase = "loading"
  /\ SessionDefaults
  /\ now = 0
  /\ exc = "none"
  /\ last_call = NoCall
  /\ written = <<>>
  /\ issued = {}
  /\ score = 0
  /\ band = <<>>

\* The module's top-level code run on an edited catalog.
SpecValidate == InitValidate /\ [][ModuleLoad]_vars

-----------------------------------------------------------------------------
(* Properties.                                                             *)

Assessment == llm_payload.assessment

QuestionById(q_id) == QUESTIONS[CHOOSE i \in 1..Len(QUESTIONS) : QUESTIONS[i].id = q_id]

\* The answer set without the answer to q_id.
DictRemove(d, key) == SelectSeq(d, LAMBDA e : e.key # key)

\* The answer to q_id is one of the question's options.
Recognized(resp, q_id) ==
  DictHas(resp, q_id) /\ HasOption(QuestionById(q_id), DictGet(resp, q_id))

\* The categories of the payload's risk flags, in order.
FlagCategories(flags) == [i \in 1..Len(flags) |-> flags[i].category]

CrisisDescription == "Crisis indicators present - urgent intervention recommended"

\* C1: the weights of the catalog sum to 100 whenever the module has loaded,
\* a payload exists only then, and a catalog whose weights do not sum to 100
\* stops the start with an AssertionError, the session untouched.
C1_WeightsSumTo100 ==
  LET total == SumWeights(QUESTIONS, Len(QUESTIONS)) IN
  /\ phase = "ready" => total = 100
  /\ page # "welcome" \/ llm_payload # None \/ llm_response # None => phase = "ready"
  /\ total # 100 => phase \in {"loading", "failed"} /\ SessionDefaults
  /\ phase = "failed" => total # 100 /\ exc = "AssertionError"

C1_Witness ==
  phase = "failed" /\ SumWeights(QUESTIONS, Len(QUESTIONS)) = 101

\* C2: the total score of every payload lies in 0..100.
C2_TotalInRange ==
  llm_payload # None => Assessment.total_score \in 0..100 /\ Assessment.max_score = 100

C2_Witness ==
  /\ llm_payload # None
  /\ Assessment.total_score = 100
  /\ Len(responses) = Len(QUESTIONS)

\* C3: get_risk_band gives HIGH from 60 up, MEDIUM from 35 to 59 and LOW
\* below 35, each with its description and response time.
C3_RiskBandThresholds ==
  band # <<>> =>
    /\ score >= 60 =>
         /\ band[1] = "HIGH"
         /\ band[3] = "Urgent intervention recommended"
         /\ band[4] = "Within 24 hours"
    /\ score >= 35 /\ score < 60 =>
         /\ band[1] = "MEDIUM"
         /\ band[3] = "Priority support pathway"
         /\ band[4] = "Within 3 working days"
    /\ score < 35 =>
         /\ band[1] = "LOW"
         /\ band[3] = "Standard support pathway"
         /\ band[4] = "Within 10 working days"

C3_Witness == score = 35 /\ band # <<>> /\ band[1] = "MEDIUM"

\* The answer to q_id, recognized or not, begins with prefix.
AnswerStartsWith(resp, q_id, prefix) ==
  DictHas(resp, q_id) /\ StartsWith(DictGet(resp, q_id), prefix)

\* A crisis trigger read off the raw answers.
RawCrisisTrigger(resp) ==
  \/ AnswerStartsWith(resp, "housing_stability", <<"Unstable">>)
  \/ AnswerStartsWith(resp, "housing_stability", <<"Crisis">>)
  \/ AnswerStartsWith(resp, "abuse_safety", <<"In", "immediate", "danger">>)
  \/ AnswerStartsWith(resp, "mental_health", <<"In", "crisis">>)

\* A crisis trigger among the answers that are options of their question.
RecognizedCrisisTrigger(resp) ==
  \/ /\ Recognized(resp, "housing_stability")
     /\ \/ AnswerStartsWith(resp, "housing_stability", <<"Unstable">>)
        \/ AnswerStartsWith(resp, "housing_stability", <<"Crisis">>)
  \/ /\ Recognized(resp, "abuse_safety")
     /\ AnswerStartsWith(resp, "abuse_safety", <<"In", "immediate", "danger">>)
  \/ /\ Recognized(resp, "mental_health")
     /\ AnswerStartsWith(resp, "mental_health", <<"In", "crisis">>)

CrisisForced ==
  /\ Assessment.risk_level = "HIGH"
  /\ Assessment.risk_description = CrisisDescription
  /\ Assessment.recommended_response_time = "Within 24 hours"

\* C4 as claimed: any answer that begins with a crisis prefix, with a total
\* below 60, forces HIGH with the crisis description within 24 hours.
C4_CrisisOverrideRaw ==
  llm_payload # None /\ RawCrisisTrigger(responses) /\ Assessment.total_score < 60
    => CrisisForced

\* C4 as amended: an answer that is an option of its question and begins with
\* a crisis prefix, with a total below 60, forces HIGH with the crisis
\* description within 24 hours.
C4_CrisisOverride ==
  llm_payload # None /\ RecognizedCrisisTrigger(responses) /\ Assessment.total_score < 60
    => CrisisForced

\* Scenario B: the housing crisis option alone.
C4_Witness ==
  /\ llm_payload # None
  /\ DictKeys(responses) = <<"housing_stability">>
  /\ Recognized(responses, "housing_stability")
  /\ Assessment.total_score = 20
  /\ CrisisForced

\* Where a call that failed ended, for the failures the client must absorb.
TransportFailures == {"ConnectionError", "Timeout", "status"}
AbsorbedFailures ==
  TransportFailures \cup {"no_key", "undecodable", "shape", "invalid_json", "text_type"}

\* C5: once Complete Assessment has run, whatever came back from the remote
\* call, the session is on the results page with a payload and a response.
C5_ResponseAlwaysProduced ==
  last_call.op = "complete" =>
    page = "results" /\ llm_payload # None /\ llm_response # None

\* C6: when the call made at Complete Assessment times out, fails in transport
\* or gets a non-success status, the stored result is the fallback of the
\* payload, used_fallback is set and the officer notes carry the word fallback.
C6_FallbackOnFailure ==
  last_call.op = "complete" /\ last_call.kind \in TransportFailures =>
    /\ page = "results"
    /\ llm_response = get_fallback_response(llm_payload)
    /\ used_fallback = TRUE
    /\ llm_response.t = "dict"
    /\ ContainsWord(llm_response.d.officer_summary.d.notes.s, "fallback")
    /\ llm_response.d.user_response.d.next_steps.s[5] = Join(reference.s) \o "."

C6_Witness ==
  /\ last_call.op = "complete" /\ last_call.kind = "Timeout"
  /\ page = "results"
  /\ used_fallback
  /\ llm_response = get_fallback_response(llm_payload)

\* C7: no failure of the remote call leaves call_bedrock_claude as an
\* exception; at Complete Assessment each of them ends in the fallback.
C7_NoExceptionPropagates ==
  last_call.kind \in AbsorbedFailures =>
    /\ exc = "none"
    /\ last_call.op = "complete" => used_fallback /\ page = "results"

\* C8: a reply whose text parses to something other than a mapping is never
\* stored as the result; the fallback is stored, with used_fallback set.
C8_NonMappingRejected ==
  llm_response # None => llm_response.t = "dict"

\* The parts of a payload the answers decide.
Scored(payload) ==
  <<payload.assessment.total_score, payload.category_scores, payload.risk_flags>>

\* C9: an answer that is no option of its question counts as no answer: the
\* payload has the total, the category scores and the flags of the answer set
\* without it, no entry and no flag for its question.
C9_UnrecognizedIsUnanswered ==
  llm_payload # None =>
    \A i \in 1..Len(responses) :
      LET q_id == responses[i].key IN
      ~Recognized(responses, q_id) =>
        /\ Scored(llm_payload) =
             Scored(build_llm_payload(DictRemove(responses, q_id), additional_context,
                                      reference, llm_payload.timestamp))
        /\ ~DictHas(llm_payload.category_scores, q_id)
        /\ \A n \in 1..Len(llm_payload.risk_flags) :
             llm_payload.risk_flags[n].category # q_id
        /\ exc = "none"

\* Only unknown labels, one of them on a crisis category.
C9_Witness ==
  /\ llm_payload # None
  /\ Len(responses) = 2
  /\ \A i \in 1..Len(responses) : ~Recognized(responses, responses[i].key)
  /\ DictHas(responses, "housing_stability")
  /\ Assessment.total_score = 0
  /\ llm_payload.category_scores = <<>>
  /\ llm_payload.risk_flags = <<>>

\* The questions, in catalog order, whose recognized answer scores more than
\* 60% of the weight.
RECURSIVE FlaggedIds(_, _)
FlaggedIds(resp, n) ==
  IF n = 0 THEN <<>>
  ELSE LET q == QUESTIONS[n]
           prev == FlaggedIds(resp, n - 1)
       IN IF /\ Recognized(resp, q.id)
             /\ 10 * OptionScore(q, DictGet(resp, q.id)) > 6 * q.weight
            THEN Append(prev, q.id) ELSE prev

\* C10: the payload flags exactly the questions whose recognized answer scores
\* strictly more than 60% of the weight, once each; the flag repeats the
\* prompt, the answer and the keywords of its question.
C10_RiskFlagsOverSixtyPercent ==
  llm_payload # None =>
    /\ FlagCategories(llm_payload.risk_flags) = FlaggedIds(responses, Len(QUESTIONS))
    /\ \A n \in 1..Len(llm_payload.risk_flags) :
         LET flag == llm_payload.risk_flags[n]
             q == QuestionById(flag.category)
         IN /\ flag.response = DictGet(responses, flag.category)
            /\ flag.concern = q.prompt
            /\ flag.keywords = q.risk_keywords

\* financial_pressure at 19/25 raises the one flag; abuse_safety at 6/10,
\* exactly 60%, raises none.
C10_Witness ==
  /\ llm_payload # None
  /\ DictKeys(llm_payload.category_scores) = <<"financial_pressure", "abuse_safety">>
  /\ DictGet(llm_payload.category_scores, "financial_pressure").score = 19
  /\ DictGet(llm_payload.category_scores, "abuse_safety").score = 6
  /\ FlagCategories(llm_payload.risk_flags) = <<"financial_pressure">>

\* The crisis options of the catalog: the (question, option label) pairs the
\* tests of lines 1074-1081 accept.
CrisisOptions ==
  { p \in UNION { { <<QUESTIONS[i].id, QUESTIONS[i].options[k].label>> :
                      k \in 1..Len(QUESTIONS[i].options) } : i \in 1..Len(QUESTIONS) } :
      IsCrisisAnswer(p[1], p[2]) }

\* The level and the response time of a payload.
LevelAndTime(payload) ==
  <<payload.assessment.risk_level, payload.assessment.recommended_response_time>>

\* C11: with at least one crisis trigger among the answers the payload is HIGH
\* within 24 hours whatever the total, and answering one more crisis question
\* with a crisis option (or changing a crisis answer for another crisis option)
\* leaves the level and the response time as they are.
C11_CrisisMonotonicIdempotent ==
  llm_payload # None /\ RecognizedCrisisTrigger(responses) =>
    /\ LevelAndTime(llm_payload) = <<"HIGH", "Within 24 hours">>
    /\ \A p \in CrisisOptions :
         LevelAndTime(build_llm_payload(DictSet(responses, p[1], p[2]),
                                        additional_context, reference,
                                        llm_payload.timestamp))
           = LevelAndTime(llm_payload)

\* The mental health crisis option is the only trigger and the total is in the
\* LOW range.
C11_Witness ==
  /\ llm_payload # None
  /\ Recognized(responses, "mental_health")
  /\ AnswerStartsWith(responses, "mental_health", <<"In", "crisis">>)
  /\ ~DictHas(responses, "housing_stability")
  /\ ~DictHas(responses, "abuse_safety")
  /\ Assessment.total_score < 35
  /\ LevelAndTime(llm_payload) = <<"HIGH", "Within 24 hours">>

\* The sum of the score fields of the first n entries of category_scores.
RECURSIVE SumScores(_, _)
SumScores(cs, n) ==
  IF n = 0 THEN 0 ELSE SumScores(cs, n - 1) + cs[n].value.score

\* The answer set a payload's category_scores record.
RecordedAnswers(cs) ==
  [i \in 1..Len(cs) |-> [key |-> cs[i].key, value |-> cs[i].value.answer]]

\* The thresholds and the crisis override applied to a total and to the
\* answers category_scores record.
RederivedLevel(total, cs) ==
  LET base == get_risk_band(total)
      crisis == \E i \in 1..Len(cs) : IsCrisisAnswer(cs[i].key, cs[i].value.answer)
  IN IF crisis /\ base[1] # "HIGH" THEN "HIGH" ELSE base[1]

\* C12: the total of a payload is the sum of the scores of its category_scores,
\* and the thresholds and the crisis override applied to that sum and to the
\* answers recorded there give the payload's risk level; scoring the recorded
\* answers again gives the same assessment.
C12_RoundTrip ==
  llm_payload # None =>
    LET cs == llm_payload.category_scores
        total == SumScores(cs, Len(cs))
    IN /\ Assessment.total_score = total
       /\ Assessment.risk_level = RederivedLevel(total, cs)
       /\ build_llm_payload(RecordedAnswers(cs), additional_context, reference,
                            llm_payload.timestamp).assessment = Assessment

\* Every question answered, the housing answer recorded nowhere, the level
\* HIGH.
C12_Witness ==
  /\ llm_payload # None
  /\ Len(responses) = Len(QUESTIONS)
  /\ Len(llm_payload.category_scores) = Len(QUESTIONS) - 1
  /\ ~DictHas(llm_payload.category_scores, "housing_stability")
  /\ Assessment.total_score > 0
  /\ Assessment.risk_level = "HIGH"

\* The loop of lines 1051-1081 run over the catalog in another order: order is
\* a permutation of the catalog's positions.
RECURSIVE ScoreInOrder(_, _, _)
ScoreInOrder(order, resp, n) ==
  IF n = 0 THEN ScoreStart
  ELSE ScoreStep(ScoreInOrder(order, resp, n - 1), QUESTIONS[order[n]], resp)

\* The rotations of the catalog's positions and their reversals.
CatalogOrders ==
  LET N == Len(QUESTIONS) IN
  { [i \in 1..N |-> ((i + r - 1) % N) + 1] : r \in 0..(N - 1) } \cup
  { [i \in 1..N |-> ((N - i + r) % N) + 1] : r \in 0..(N - 1) }

\* The rotations of a sequence and their reversals.
Reorderings(s) ==
  LET N == Len(s) IN
  IF N = 0 THEN {s}
  ELSE { [i \in 1..N |-> s[((i + r - 1) % N) + 1]] : r \in 0..(N - 1) } \cup
       { [i \in 1..N |-> s[((N - i + r) % N) + 1]] : r \in 0..(N - 1) }

\* The position of a question id in the catalog.
CatalogIndex(q_id) == CHOOSE i \in 1..Len(QUESTIONS) : QUESTIONS[i].id = q_id

\* ids lists question ids by increasing catalog position.
InCatalogOrder(ids) ==
  \A i \in 1..Len(ids), j \in 1..Len(ids) :
    i < j => CatalogIndex(ids[i]) < CatalogIndex(ids[j])

\* C13: the total is the same in whatever order the catalog is iterated and in
\* whatever order the answers were inserted; risk_flags and category_scores
\* list their questions in catalog order, whatever the insertion order.
C13_OrderIndependence ==
  llm_payload # None =>
    /\ \A order \in CatalogOrders :
         ScoreInOrder(order, responses, Len(QUESTIONS)).total_score
           = Assessment.total_score
    /\ \A resp \in Reorderings(responses) :
         build_llm_payload(resp, additional_context, reference,
                           llm_payload.timestamp) = llm_payload
    /\ InCatalogOrder(DictKeys(llm_payload.category_scores))
    /\ InCatalogOrder(FlagCategories(llm_payload.risk_flags))
    /\ Len(llm_payload.category_scores) = Len(QUESTIONS) =>
         /\ llm_payload.category_scores[1].key = "housing_stability"
         /\ llm_payload.category_scores[Len(QUESTIONS)].key = "service_interest"

\* Every question answered, with flags on the first and on a later question.
C13_Witness ==
  /\ llm_payload # None
  /\ DictKeys(llm_payload.category_scores) = QuestionIds
  /\ Len(llm_payload.risk_flags) >= 2
  /\ llm_payload.risk_flags[1].category = "housing_stability"
  /\ Assessment.total_score > 0

\* The keys of a JSON object.
Keys(x) == DOMAIN x.d

\* The shape of an enrichment result as the fallback makes it.
FallbackShape(r) ==
  /\ r.t = "dict"
  /\ Keys(r) = {"user_response", "officer_summary"}
  /\ r.d.user_response.t = "dict"
  /\ Keys(r.d.user_response) = {"greeting", "support_links", "next_steps", "emergency_note"}
  /\ r.d.user_response.d.greeting.t = "str"
  /\ r.d.user_response.d.next_steps.t = "str"
  /\ r.d.user_response.d.support_links.t = "list"
  /\ Len(r.d.user_response.d.support_links.items) = 3
  /\ \A i \in 1..3 :
       /\ r.d.user_response.d.support_links.items[i].t = "dict"
       /\ Keys(r.d.user_response.d.support_links.items[i])
            = {"name", "url", "phone", "description", "priority"}
  /\ r.d.officer_summary.t = "dict"
  /\ Keys(r.d.officer_summary)
       = {"risk_level", "key_concerns", "recommended_actions", "referral_suggestions",
          "notes"}
  /\ r.d.officer_summary.d.key_concerns.t = "list"
  /\ r.d.officer_summary.d.recommended_actions.t = "list"
  /\ r.d.officer_summary.d.referral_suggestions.t = "list"
  /\ r.d.officer_summary.d.notes.t = "str"

\* C14: get_fallback_response, applied to a payload (the empty one included),
\* returns a result of the fallback's shape, raises nothing and has written
\* nothing to the log or to stdout.
C14_FallbackPureTotal ==
  llm_response # None =>
    /\ FallbackShape(llm_response)
    /\ exc = "none"
    /\ written = <<>>
  /\ issued = {}

\* C15: in the fallback of a payload with an assessment, the emergency note is
\* there exactly when the payload's risk level is HIGH, and the officer summary
\* repeats the payload's risk level.
C15_EmergencyNoteIffHigh ==
  llm_response # None /\ "assessment" \in DOMAIN llm_payload =>
    /\ llm_response.d.user_response.d.emergency_note # None
         <=> Assessment.risk_level = "HIGH"
    /\ llm_response.d.officer_summary.d.risk_level = JStr(<<Assessment.risk_level>>)

\* A payload the crisis override made HIGH, with the note.
C15_Witness ==
  /\ llm_response # None /\ "assessment" \in DOMAIN llm_payload
  /\ Assessment.total_score < 35
  /\ Assessment.risk_level = "HIGH"
  /\ llm_response.d.user_response.d.emergency_note.t = "str"

\* A category id with every underscore a space and every word capitalised.
Titleized ==
  [housing_stability |-> <<"Housing", "Stability">>,
   financial_pressure |-> <<"Financial", "Pressure">>,
   health_work_impact |-> <<"Health", "Work", "Impact">>,
   mental_health |-> <<"Mental", "Health">>,
   abuse_safety |-> <<"Abuse", "Safety">>,
   care_leaver |-> <<"Care", "Leaver">>,
   institutional_discharge |-> <<"Institutional", "Discharge">>,
   benefits_access |-> <<"Benefits", "Access">>,
   support_network |-> <<"Support", "Network">>,
   service_interest |-> <<"Service", "Interest">>]

\* C16: key_concerns of the fallback holds the total out of 100 and then the
\* titleized category of each risk flag of the payload, in the flags' order.
C16_KeyConcerns ==
  llm_response # None /\ "assessment" \in DOMAIN llm_payload =>
    LET key_concerns == llm_response.d.officer_summary.d.key_concerns.items
        flags == llm_payload.risk_flags
    IN /\ Len(key_concerns) = 1 + Len(flags)
       /\ key_concerns[1]
            = JStr(<<"Score:", ToString(Assessment.total_score) \o "/100">>)
       /\ \A n \in 1..Len(flags) :
            key_concerns[n + 1] = JStr(Titleized[flags[n].category])

\* Two flags or more, the first of them on housing_stability.
C16_Witness ==
  /\ llm_response # None /\ "assessment" \in DOMAIN llm_payload
  /\ Len(llm_payload.risk_flags) >= 2
  /\ llm_response.d.officer_summary.d.key_concerns.items[2]
       = JStr(<<"Housing", "Stability">>)
  /\ llm_response.d.officer_summary.d.key_concerns.items[3]
       = JStr(<<"Financial", "Pressure">>)

\* C17: a retry that succeeds (the call returns a result) stores that result
\* as it is, whatever was stored before, and clears used_fallback.
C17_RetryReplaces ==
  [][\A reply \in Replies :
       LET new_llm == call_bedrock_claude(llm_payload, reply) IN
       RetryAnalysis(reply) /\ new_llm.raised = "none" /\ new_llm.value # None
         => llm_response' = new_llm.value /\ used_fallback' = FALSE]_vars

\* A retry made while the fallback was stored came back with a result in the
\* schema: nothing of the fallback is left.
C17_Witness ==
  /\ last_call.op = "retry" /\ last_call.kind = "parsed"
  /\ last_call.prior_fallback
  /\ ~used_fallback
  /\ llm_response.t = "dict"
  /\ llm_response # get_fallback_response(llm_payload)
  /\ llm_response.d.officer_summary.d.notes # get_fallback_response(llm_payload).d.officer_summary.d.notes

\* C18: on the results page the payload and the reference stay as Complete
\* Assessment made them, the payload carries that reference, and every call,
\* the retries included, posted exactly the stored payload.
C18_PayloadNeverMutated ==
  /\ [](page = "results" =>
          /\ llm_payload.reference = reference
          /\ last_call.op \in {"complete", "retry"}
          /\ BEDROCK_API_KEY => last_call.sent = llm_payload)
  /\ [][page = "results" /\ page' = "results" =>
          llm_payload' = llm_payload /\ reference' = reference]_vars

\* A failed retry after a successful one.
C18_Witness ==
  /\ page = "results"
  /\ last_call.op = "retry" /\ last_call.kind = "Timeout"
  /\ ~last_call.prior_fallback
  /\ last_call.sent = llm_payload
  /\ llm_response.t = "dict" /\ ~used_fallback

\* No option of the catalog scores more than its question's weight.
ScoresWithinWeights(questions) ==
  \A i \in 1..Len(questions) : \A k \in 1..Len(questions[i].options) :
    questions[i].options[k].score <= questions[i].weight

\* No question id occurs twice in the catalog.
DistinctIds(questions) ==
  \A i \in 1..Len(questions), j \in 1..Len(questions) :
    i # j => questions[i].id # questions[j].id

\* C19: the start fails when an option scores more than its question's weight
\* or an id occurs twice, as it does when the weights do not sum to 100.
C19_CatalogValidated ==
  /\ phase = "ready" =>
       /\ SumWeights(QUESTIONS, Len(QUESTIONS)) = 100
       /\ ScoresWithinWeights(QUESTIONS)
       /\ DistinctIds(QUESTIONS)
  /\ phase = "failed" => exc = "AssertionError"

\* C20: an assessment that Complete Assessment takes to the results page gets
\* a reference that no assessment completed earlier in the session got.
C20_ReferencesUnique ==
  [][page = "additional" /\ page' = "results" => reference' \notin issued]_vars

-----------------------------------------------------------------------------
(* A result whose user_response is a str, on the results page.             *)

\* The results page was rendered from a stored dict whose user_response is a str.
StringUserResponse ==
  /\ page = "results" /\ exc = "none"
  /\ llm_response.t = "dict"
  /\ "user_response" \in DOMAIN llm_response.d
  /\ llm_response.d.user_response.t = "str"

\* What the user tab shows for the session's stored result.
UserView == render_user_view(ShownResponse(llm_response, llm_payload).d)

\* C21, as stated: a user_response that is a plain str is used verbatim as the
\* greeting, no support card is rendered and no exception propagates.
C21_GreetingVerbatim ==
  StringUserResponse =>
    /\ UserView.greeting = llm_response.d.user_response.s
    /\ UserView.cards = <<>>
    /\ UserView.raised = "none"

\* C21, amended: a user_response that is a plain str is used as the greeting
\* after clean_text_for_html (character references decoded, markup removed,
\* blanks collapsed, HTML-escaped), the default greeting standing in for the
\* empty str; no support card is rendered and no exception propagates.
C21_GreetingCleaned ==
  StringUserResponse =>
    LET s == llm_response.d.user_response.s
        kept == SelectSeq(s, LAMBDA w : w \notin {"", "<b>", "</b>"})
    IN /\ UserView.greeting = IF s = <<>> THEN DefaultGreeting ELSE kept
       /\ UserView.cards = <<>>
       /\ ~UserView.emergency.shown
       /\ UserView.raised = "none"

\* A str user_response with markup was shown, cleaned, without a support card.
C21_Witness ==
  /\ StringUserResponse
  /\ \E i \in 1..Len(llm_response.d.user_response.s) :
       llm_response.d.user_response.s[i] = "<b>"
  /\ \A i \in 1..Len(UserView.greeting) : UserView.greeting[i] # "<b>"
  /\ UserView.greeting # <<>>
  /\ UserView.cards = <<>>

-----------------------------------------------------------------------------
(* Scenario D: every question answered with its last option.               *)

\* The last option of question i of the catalog.
LastOption(i) == QUESTIONS[i].options[Len(QUESTIONS[i].options)]

\* resp answers every question of the catalog, each with its last option.
AllLastOptions(resp) ==
  /\ Len(resp) = Len(QUESTIONS)
  /\ \A i \in 1..Len(QUESTIONS) :
       /\ DictHas(resp, QUESTIONS[i].id)
       /\ DictGet(resp, QUESTIONS[i].id) = LastOption(i).label

\* C22: with every question answered by its last option, that option is the
\* maximum-scoring one of each question, the total is 100, there are ten
\* category entries and ten risk flags, one for every question, and the level
\* is HIGH by the base threshold, with the base description.
C22_AllLastOptions ==
  llm_payload # None /\ AllLastOptions(responses) =>
    /\ \A i \in 1..Len(QUESTIONS) :
         /\ LastOption(i).score = QUESTIONS[i].weight
         /\ \A k \in 1..Len(QUESTIONS[i].options) :
              QUESTIONS[i].options[k].score <= LastOption(i).score
    /\ Assessment.total_score = 100
    /\ DictKeys(llm_payload.category_scores) = QuestionIds
    /\ Len(llm_payload.category_scores) = 10
    /\ FlagCategories(llm_payload.risk_flags) = QuestionIds
    /\ Len(llm_payload.risk_flags) = 10
    /\ get_risk_band(Assessment.total_score)[1] = "HIGH"
    /\ Assessment.risk_level = "HIGH"
    /\ Assessment.risk_description = "Urgent intervention recommended"

\* The payload of the all-last-options answer set was built.
C22_Witness ==
  /\ llm_payload # None
  /\ AllLastOptions(responses)
  /\ Len(llm_payload.risk_flags) = Len(QUESTIONS)

-----------------------------------------------------------------------------
(* The free text, the reference and the score.                             *)

\* The references build_llm_payload may be handed: none, or one generated at
\* a tick of the clock.
References == {None} \cup { generate_reference(t) : t \in 0..MaxNow }

\* C23: the payload built from the same answers with another free text or
\* another reference has the same assessment, category scores and risk flags,
\* and every payload stores the free text it was handed, unchanged.
C23_ContextAndReferenceInert ==
  llm_payload # None =>
    /\ llm_payload.additional_context = additional_context
    /\ \A context \in Contexts, ref \in References :
         LET other == build_llm_payload(responses, context, ref, llm_payload.timestamp)
         IN /\ other.assessment = llm_payload.assessment
            /\ other.category_scores = llm_payload.category_scores
            /\ other.risk_flags = llm_payload.risk_flags
            /\ other.additional_context = context

\* A payload in the LOW range, and one from the same answers that differs in
\* the free text and the reference.
C23_Witness ==
  /\ llm_payload # None
  /\ Assessment.total_score \in 1..34
  /\ Assessment.risk_level = "LOW"
  /\ \E context \in Contexts, ref \in References :
       LET other == build_llm_payload(responses, context, ref, llm_payload.timestamp)
       IN /\ other.additional_context # llm_payload.additional_context
          /\ other.reference # llm_payload.reference
          /\ other.assessment = llm_payload.assessment

-----------------------------------------------------------------------------
(* A crisis trigger when the total is 60 or more.                          *)

\* C24: with a total of 60 or more a crisis trigger changes nothing, the level
\* is HIGH with the description "Urgent intervention recommended"; the crisis
\* description is in a payload only when its total is below 60.
C24_OverrideOnlyBelowSixty ==
  llm_payload # None =>
    /\ Assessment.total_score >= 60 /\ RecognizedCrisisTrigger(responses) =>
         /\ Assessment.risk_level = "HIGH"
         /\ Assessment.risk_description = "Urgent intervention recommended"
         /\ Assessment.risk_description # CrisisDescription
         /\ Assessment.recommended_response_time =
              get_risk_band(Assessment.total_score)[4]
    /\ Assessment.risk_description = CrisisDescription => Assessment.total_score < 60

\* A total of 60 or more with a crisis option among the answers.
C24_Witness ==
  /\ llm_payload # None
  /\ Assessment.total_score >= 60
  /\ RecognizedCrisisTrigger(responses)
  /\ Assessment.risk_description = "Urgent intervention recommended"

-----------------------------------------------------------------------------
(* A manual retry that fails.                                              *)

\* The retry with this reply fails: the call raises or returns None.
RetryFails(reply) ==
  LET new_llm == call_bedrock_claude(llm_payload, reply)
  IN new_llm.raised # "none" \/ new_llm.value = None

\* C25: a retry that fails leaves llm_response, used_fallback, llm_payload,
\* reference and page as they were, after a fallback as after a remote result.
C25_FailedRetryKeepsSession ==
  [][\A reply \in Replies :
       page = "results" /\ page' = "results" /\ llm_payload # None
         /\ RetryFails(reply) /\ RetryAnalysis(reply)
       => UNCHANGED <<llm_response, used_fallback, llm_payload, reference, page>>]_vars

\* A retry failed on the transport and the remote result of before is kept.
C25_Witness ==
  /\ page = "results"
  /\ last_call.op = "retry"
  /\ last_call.kind = "ConnectionError"
  /\ ~last_call.prior_fallback
  /\ ~used_fallback
  /\ llm_response.t = "dict"

-----------------------------------------------------------------------------
(* The fallback flag and what the results page shows.                      *)

\* What the results page shows is the output of the fallback generator.
ShownIsFallback ==
  ShownResponse(llm_response, llm_payload) = get_fallback_response(llm_payload)

\* C26: on the results page used_fallback is true exactly when what is shown
\* is the fallback generator's output, and then the stored result is that
\* output.
C26_FlagMatchesShown ==
  page = "results" =>
    /\ used_fallback <=> ShownIsFallback
    /\ used_fallback => llm_response = get_fallback_response(llm_payload)

-----------------------------------------------------------------------------
(* Unknown labels that begin like a crisis option.                         *)

\* Some answer begins with a crisis prefix of its question, and none of those
\* answers is an option of its question.
OnlyUnrecognizedCrisisPrefix(resp) ==
  RawCrisisTrigger(resp) /\ ~RecognizedCrisisTrigger(resp)

\* C27: a label that is no option of its question triggers no override even
\* when it begins with a crisis prefix: level, description and response time
\* are those of the total score.
C27_UnrecognizedNeverTriggers ==
  llm_payload # None /\ OnlyUnrecognizedCrisisPrefix(responses) =>
    LET base == get_risk_band(Assessment.total_score)
    IN /\ Assessment.risk_level = base[1]
       /\ Assessment.risk_description = base[3]
       /\ Assessment.recommended_response_time = base[4]

\* "In immediate danger tonight" is no option of abuse_safety; the other
\* answers put the total in the MEDIUM range.
C27_Witness ==
  /\ llm_payload # None
  /\ DictHas(responses, "abuse_safety")
  /\ DictGet(responses, "abuse_safety") = <<"In", "immediate", "danger", "tonight">>
  /\ OnlyUnrecognizedCrisisPrefix(responses)
  /\ Assessment.total_score \in 35..59
  /\ Assessment.risk_level = "MEDIUM"

-----------------------------------------------------------------------------
(* HIGH payloads and risk flags.                                           *)

\* The highest score among the options of question i that raise no flag.
MaxUnflaggedScore(i) ==
  LET q == QUESTIONS[i]
      unflagged == { k \in 1..Len(q.options) : 5 * q.options[k].score <= 3 * q.weight }
  IN CHOOSE s \in { q.options[k].score : k \in unflagged } :
       \A k \in unflagged : q.options[k].score <= s

\* The largest total an answer set can have without raising a flag.
RECURSIVE MaxUnflaggedTotal(_)
MaxUnflaggedTotal(n) ==
  IF n = 0 THEN 0 ELSE MaxUnflaggedTotal(n - 1) + MaxUnflaggedScore(n)

\* C28: a HIGH payload has a risk flag; an answer set that raises no flag has
\* a total of at most 49, the most the unflagged options add up to, and no
\* crisis trigger; every crisis option scores more than 60% of its weight.
C28_HighHasRiskFlag ==
  llm_payload # None =>
    /\ Assessment.risk_level = "HIGH" => llm_payload.risk_flags # <<>>
    /\ llm_payload.risk_flags = <<>> =>
         /\ Assessment.total_score <= 49
         /\ ~RecognizedCrisisTrigger(responses)
    /\ MaxUnflaggedTotal(Len(QUESTIONS)) <= 49
    /\ \A p \in CrisisOptions :
         5 * OptionScore(QuestionById(p[1]), p[2]) > 3 * QuestionById(p[1]).weight

\* All ten questions answered, no flag raised, the total at its largest.
C28_Witness ==
  /\ llm_payload # None
  /\ Len(llm_payload.category_scores) = Len(QUESTIONS)
  /\ llm_payload.risk_flags = <<>>
  /\ Assessment.total_score = 49
  /\ Assessment.risk_level = "MEDIUM"

-----------------------------------------------------------------------------
(* The position in the questionnaire and the answers given so far.         *)

\* The first n questions of the catalog have an answer that is one of their
\* options.
AnsweredUpTo(n) ==
  \A i \in 1..n : Recognized(responses, QUESTIONS[i].id)

\* C29: current_question stays within 0..10 and every question below it has a
\* recognized answer; on the additional and the results page all ten
\* questions are answered and the payload built there has ten category entries.
C29_AnsweredBelowCurrent ==
  /\ current_question \in 0..10
  /\ current_question <= Len(QUESTIONS)
  /\ AnsweredUpTo(current_question)
  /\ page \in {"additional", "results"} =>
       /\ current_question = Len(QUESTIONS)
       /\ AnsweredUpTo(Len(QUESTIONS))
       /\ llm_payload # None =>
            /\ Len(llm_payload.category_scores) = 10
            /\ DictKeys(llm_payload.category_scores) = QuestionIds
  /\ page = "results" => llm_payload # None

\* Back from the additional page to the last question, a payload of an
\* attempt that raised still stored: nine questions below, all ten answered.
C29_Witness ==
  /\ page = "question"
  /\ current_question = Len(QUESTIONS) - 1
  /\ AnsweredUpTo(Len(QUESTIONS))
  /\ llm_payload # None
  /\ Len(llm_payload.category_scores) = 10

-----------------------------------------------------------------------------
(* Start New Assessment.                                                   *)

\* C30: Start New Assessment puts every session field back to its initial
\* value, so on the welcome page no answer, payload or result remains, and
\* the results page is entered from the additional page by Complete
\* Assessment only.
C30_ResetAndEntry ==
  /\ [](page = "welcome" => SessionDefaults)
  /\ [][page = "results" /\ page' # "results" => SessionDefaults']_vars
  /\ [][page # "results" /\ page' = "results" =>
          /\ page = "additional"
          /\ last_call'.op = "complete"
          /\ llm_payload' # None /\ llm_response' # None]_vars

\* Back on the welcome page after a completed assessment.
C30_Witness ==
  /\ page = "welcome"
  /\ issued # {}
  /\ SessionDefaults

=============================================================================
